---- MODULE Spec2Model ----
(***************************************************************************)
(* Model of the DVR recording engine of ynotv (packages/app/src-tauri/src/ *)
(* dvr): the schedule store (database.rs), the polling scheduler           *)
(* (scheduler.rs), the recording manager (recorder.rs) and the commands of *)
(* lib.rs that cancel a schedule.                                          *)
(*                                                                         *)
(* Every access to shared state (a SQL statement, a critical section of    *)
(* the active_recordings mutex, a send on the watch channel, a kill of the *)
(* child process) is one step; tasks interleave between steps, as tokio    *)
(* tasks on a multi-threaded runtime do.  Code between two such accesses   *)
(* that touches only task-local data is folded into the neighbouring step. *)
(***************************************************************************)
EXTENDS Integers, Sequences, FiniteSets, TLC

\* ---------------------------------------------------------------- bounds
NumSchedules == 2
MaxDue == 1
MaxTicks == 2
\* The time at which the clock of the runs of the polling job stops
EndOfClock == 1600

\* ------------------------------------------------------ program constants
SCHEDULING_WINDOW_SECONDS == 60
MISSED_RECORDING_GRACE_SECONDS == 300
POLL_INTERVAL_SECONDS == 30

\* ------------------------------------------------------------ value sets
SchedIds == 1..NumSchedules
TickIds == 1..MaxTicks
CallIds == {1, 2}
TaskIds == TickIds \X SchedIds
UnknownId == 0
NULL == -1
StartTime == 1000

RecordingStatus == {"recording", "completed", "failed", "partial"}
TerminalRecordingStatus == {"completed", "failed", "partial"}

VARIABLES
    now,          \* chrono::Utc::now().timestamp()
    schedules,    \* table dvr_schedules: id -> row
    recordings,   \* table dvr_recordings: sequence of rows, id = index
    active,       \* RecordingManager.active_recordings: schedule id -> handle
    cancelSent,   \* watch channel of a task: a value was sent on cancel_tx
    tasks,        \* the tokio task spawned by start_recording, per (tick, schedule)
    child,        \* the FFmpeg child process of a task
    events,       \* RecordingEvents sent on event_tx, in order, per schedule
    ticks,        \* runs of poll_schedules
    calls,        \* runs of the cancel_recording command / stop_recording
    stopAll,      \* the run of stop_all_recordings
    lock,         \* holder of the active_recordings mutex across steps
    lastQuery,    \* the last get_scheduled_recordings call of the command layer
    dispatched,   \* history: number of record() invocations per schedule
    termWrites,   \* history: number of terminal status writes per recording
    reply,        \* the last call of a store operation and what it returned
    settings,     \* table dvr_settings: the keys run_cleanup reads
    files,        \* the media and thumbnail files of the recordings, by id
    disk,         \* the disk of the storage path: total and used space
    cleanup       \* the run of run_cleanup

\* What the cleanup manager reads and writes
CleanupVars == <<settings, files, disk, cleanup>>

vars == <<now, schedules, recordings, active, cancelSent, tasks, child, events,
          ticks, calls, stopAll, lock, lastQuery, dispatched,
          termWrites, reply, CleanupVars>>

\* ----------------------------------------------------------- database.rs

\* Schedule::actual_start
actual_start(s) == s.scheduled_start - s.start_padding_sec

\* The WHERE clause of get_scheduled_recordings.  The statement binds
\* ?1 = upcoming, ?2 = window_start, ?3 = grace_start; both branches of the
\* OR compare against ?1.
IsDue(s, upcoming, window_start, grace_start) ==
    /\ s.status = "scheduled"
    /\ \/ /\ actual_start(s) <= upcoming
          /\ actual_start(s) >= window_start
       \/ /\ s.scheduled_start <= upcoming
          /\ s.scheduled_start >= grace_start
          /\ s.started_at = NULL

\* A result in rowid order, whatever the start times
OrderByStart_RowId(tbl, ids) ==
    [n \in 1..Cardinality(ids) |->
        CHOOSE i \in ids : Cardinality({j \in ids : j < i}) = n - 1]

\* ORDER BY scheduled_start ASC over a set of ids of the table `tbl`
\* (rows with equal scheduled_start come in rowid order).
RECURSIVE OrderByStart(_, _)
OrderByStart(tbl, ids) ==
    IF ids = {} THEN <<>>
    ELSE LET first == CHOOSE i \in ids : \A j \in ids :
                          \/ tbl[i].scheduled_start < tbl[j].scheduled_start
                          \/ /\ tbl[i].scheduled_start = tbl[j].scheduled_start
                             /\ i <= j
         IN  <<first>> \o OrderByStart(tbl, ids \ {first})

\* A query that looks twice the window ahead
get_scheduled_recordings_Wide(tbl, t, window_seconds, grace_period_seconds) ==
    OrderByStart(tbl, {i \in DOMAIN tbl :
                          IsDue(tbl[i], t + 2 * window_seconds,
                                t - window_seconds, t - grace_period_seconds)})

\* DvrDatabase::get_scheduled_recordings
get_scheduled_recordings(tbl, t, window_seconds, grace_period_seconds) ==
    LET upcoming == t + window_seconds
        window_start == t - window_seconds
        grace_start == t - grace_period_seconds
    IN  OrderByStart(tbl, {i \in DOMAIN tbl :
                              IsDue(tbl[i], upcoming, window_start, grace_start)})

\* DvrDatabase::count_scheduled
count_scheduled(tbl) == Cardinality({i \in DOMAIN tbl : tbl[i].status = "scheduled"})

\* An update_schedule_status that writes the status alone for every status
update_schedule_status_StatusOnly(tbl, id, status, t) ==
    IF id \notin DOMAIN tbl THEN tbl
    ELSE [tbl EXCEPT ![id].status = status]

\* DvrDatabase::update_schedule_status: an unconditional UPDATE by id;
\* status Recording also sets started_at.
update_schedule_status(tbl, id, status, t) ==
    IF id \notin DOMAIN tbl THEN tbl
    ELSE IF status = "recording"
         THEN [tbl EXCEPT ![id].status = status, ![id].started_at = t]
         ELSE [tbl EXCEPT ![id].status = status]

\* A cancel_schedule whose UPDATE has no status condition
cancel_schedule_AnyStatus(tbl, id) ==
    IF id \in DOMAIN tbl
    THEN [tbl EXCEPT ![id].status = "canceled"]
    ELSE tbl

\* DvrDatabase::cancel_schedule: UPDATE ... WHERE id = ?1 AND status = 'scheduled'
cancel_schedule(tbl, id) ==
    IF id \in DOMAIN tbl /\ tbl[id].status = "scheduled"
    THEN [tbl EXCEPT ![id].status = "canceled"]
    ELSE tbl

\* generate_filename: the file name is made of scheduled_start, the channel
\* name and the program title of the schedule; the storage directory is fixed.
generate_filename(s) == <<s.scheduled_start, s.channel_name, s.program_title>>

\* The UNIQUE constraint on dvr_recordings.file_path
PathTaken(recs, path) == \E r \in DOMAIN recs : recs[r].file_path = path

\* An add_recording that returns the id of a row it did not insert
add_recording_NoRow(recs, schedule_id, path) == recs

\* DvrDatabase::add_recording: INSERT with status 'recording'; size_bytes
\* takes the column default 0.  The id is the new rowid.
add_recording(recs, schedule_id, path) ==
    Append(recs, [schedule_id |-> schedule_id, file_path |-> path,
                  status |-> "recording", size_bytes |-> 0,
                  error_message |-> [kind |-> "none", code |-> 0, line |-> <<>>],
                  has_actual_end |-> FALSE, thumbnail_path |-> <<>>])

\* DvrDatabase::update_recording_status: size_bytes = COALESCE(?2, size_bytes),
\* error_message = ?3, actual_end set for a terminal status.
update_recording_status(recs, id, status, size_bytes, error_message) ==
    [recs EXCEPT ![id].status = status,
                 ![id].size_bytes = IF size_bytes = NULL THEN @ ELSE size_bytes,
                 ![id].error_message = error_message,
                 ![id].has_actual_end =
                     IF status \in TerminalRecordingStatus THEN TRUE ELSE @]

\* ------------------------------------------------------------ recorder.rs

NoHandle == [task |-> <<0, 0>>, process |-> FALSE, recording_id |-> 0]

\* RecordingHandle as built by record(): process: Some(child)
NewHandle(t, recording_id) == [task |-> t, process |-> TRUE, recording_id |-> recording_id]

\* Text is a sequence of characters; a line of diagnostic output is written
\* here as a sequence of words, each standing for its characters, and "\n"
\* is the line feed.  A line the process may write to stderr, and what it may
\* have written in all when it exits:
StderrLines == {<<>>, <<"Conversion failed!">>}
StderrOutputs == {<<>>} \cup {<<l>> : l \in StderrLines}
                   \cup {<<<<"Conversion failed!">>, l>> : l \in StderrLines}

\* What std::fs::metadata(output_path) finds: no file (NULL) or a length.
FileSizes == {NULL, 0, 1024}

\* ExitStatus of the child: success, or a non-zero code.
ExitCodes == {0, 1}

NoError == [kind |-> "none", code |-> 0, line |-> <<>>]
ErrorOf(kind) == [kind |-> kind, code |-> 0, line |-> <<>>]

\* The stderr task of wait_for_recording: output.push_str(&line);
\* output.push('\n') for every line read.
RECURSIVE PushLines(_)
PushLines(lines) ==
    IF lines = <<>> THEN <<>>
    ELSE Head(lines) \o <<"\n">> \o PushLines(Tail(lines))

\* str::lines(): the pieces between line feeds; a text that ends with a line
\* feed has no empty last piece.
RECURSIVE SplitLines(_, _)
SplitLines(text, cur) ==
    IF text = <<>> THEN (IF cur = <<>> THEN <<>> ELSE <<cur>>)
    ELSE IF Head(text) = "\n" THEN <<cur>> \o SplitLines(Tail(text), <<>>)
         ELSE SplitLines(Tail(text), Append(cur, Head(text)))

\* stderr_output.lines().last().unwrap_or("unknown error")
LastLine(text) ==
    LET ls == SplitLines(text, <<>>)
    IN  IF ls = <<>> THEN <<"unknown error">> ELSE ls[Len(ls)]

\* The stderr task is awaited for at most 5 s after the process exit.
StderrOutput(lines, drained) ==
    IF drained THEN PushLines(lines)
    ELSE <<"(stderr capture timed out or failed)">>

\* A select! whose cancellation branch returns Ok(()) like a clean exit
WaitResult_CancelOk(signal, code, lines, drained) ==
    CASE signal = "exit" /\ code = 0 -> NoError
      [] signal = "exit" /\ code # 0 ->
             [kind |-> "FFmpeg exited with code", code |-> code,
              line |-> LastLine(StderrOutput(lines, drained))]
      [] signal = "cancel" -> NoError
      [] signal = "timeout" -> ErrorOf("Recording timed out")

\* The value of the select! in wait_for_recording, by the branch taken.
WaitResult(signal, code, lines, drained) ==
    CASE signal = "exit" /\ code = 0 -> NoError
      [] signal = "exit" /\ code # 0 ->
             [kind |-> "FFmpeg exited with code", code |-> code,
              line |-> LastLine(StderrOutput(lines, drained))]
      [] signal = "cancel" -> ErrorOf("Recording cancelled by user")
      [] signal = "timeout" -> ErrorOf("Recording timed out")

\* record(), Err arm: Partial when the file has bytes, Failed otherwise
\* (metadata(..).map(len).unwrap_or(0)).
ErrFileSize(found) == IF found = NULL THEN 0 ELSE found
\* An Err arm that stores the recording as completed
ErrRecordingStatus_Completed(file_size) == "completed"

ErrRecordingStatus(file_size) == IF file_size > 0 THEN "partial" ELSE "failed"

\* A stop_recording that drops the handle when its process is already taken
stop_take_process_Remove(tbl, id) ==
    IF id \in DOMAIN tbl /\ tbl[id] # NoHandle
    THEN IF tbl[id].process THEN [tbl EXCEPT ![id].process = FALSE]
         ELSE [tbl EXCEPT ![id] = NoHandle]
    ELSE tbl

\* stop_recording, lines 481-484: get_mut(id).and_then(|h| h.process.take())
stop_take_process(tbl, id) ==
    IF id \in DOMAIN tbl /\ tbl[id] # NoHandle
    THEN [tbl EXCEPT ![id].process = FALSE]
    ELSE tbl

\* A stop that kills the process of every handle it finds, taken or not
process_taken_Peek(h) == h # NoHandle

\* stop_recording, lines 481-491, and stop_all_recordings, lines 510-513:
\* handle.process.take() is Some, and the process taken is killed.
process_taken(h) == h # NoHandle /\ h.process

\* A completion closure that only logs the error of record()
on_record_error_LogOnly(tbl, id, t) == tbl

\* start_recording, lines 194-201: `if let Err(e) = recorder.record(..).await`
\* then update_schedule_status(Failed); Ok(()) writes nothing more.
on_record_error(tbl, id, t) == update_schedule_status(tbl, id, "failed", t)

\* A record() task that start_recording has not spawned
NoTaskState == [pc |-> "none", recording_id |-> 0, outcome |-> "none",
                error |-> NoError, stderr |-> <<>>, thumb |-> "unrequested"]

\* ------------------------------------------------------------------ Init

\* Rows as add_schedule leaves them: status 'scheduled', started_at NULL.
NewScheduleRows(starts, paddings, titles) ==
    [status : {"scheduled"}, scheduled_start : starts,
     scheduled_end : {1300}, start_padding_sec : paddings,
     end_padding_sec : {300}, started_at : {NULL},
     channel_name : {"ch"}, program_title : titles]

\* The tables the runs start from.  With the clock at StartTime the first
\* start time is due and the second is not; two schedules with the same start
\* time and title record to the same file path.  The first MaxDue schedules
\* are the due ones (the other tables are these with the ids permuted).
StartChoices == {1040, 1200}
Titles == {"news", "film"}
InitialTables ==
    {tbl \in [SchedIds -> NewScheduleRows(StartChoices, {60}, Titles)] :
        /\ tbl[1].program_title = "news"
        /\ \A i \in SchedIds :
              /\ tbl[i].scheduled_start = 1040 <=> i <= MaxDue
              /\ tbl[i].scheduled_start = 1200 => tbl[i].program_title = "news"}

NoQuery == [now |-> 0, window |-> 0, grace |-> 0, result |-> <<>>]
IdleCall == [pc |-> "idle", id |-> UnknownId, command |-> FALSE,
             stop |-> FALSE, found |-> FALSE, after |-> FALSE]
IdleStopAll == [pc |-> "idle", keys |-> {}, cur |-> UnknownId, marked |-> {}]
NoReply == [op |-> "none"]
NoDisk == [total |-> 0, used |-> 0]

\* run_cleanup is not running.  disk_info, cutoff, queue, bytes_to_free and
\* bytes_freed are the locals of run_cleanup and of the pass it is in;
\* deleted and before are history: the rows deleted so far, in order, and the
\* table and the files as the run found them.
IdleCleanup ==
    [pc |-> "idle", disk_info |-> NoDisk, cutoff |-> 0, queue |-> <<>>,
     bytes_to_free |-> 0, bytes_freed |-> 0, deleted |-> <<>>,
     before |-> [recordings |-> <<>>, files |-> <<>>]]

\* Nothing is running and nothing was called
InitEngine ==
    /\ active = [s \in SchedIds |-> NoHandle]
    /\ cancelSent = [t \in TaskIds |-> FALSE]
    /\ tasks = [t \in TaskIds |-> NoTaskState]
    /\ child = [t \in TaskIds |-> "none"]
    /\ events = [t \in TaskIds |-> <<>>]
    /\ ticks = [k \in TickIds |-> [pc |-> "idle", due |-> <<>>]]
    /\ calls = [c \in CallIds |-> IdleCall]
    /\ stopAll = IdleStopAll
    /\ lock = "free"
    /\ lastQuery = NoQuery
    /\ dispatched = [s \in SchedIds |-> 0]
    /\ termWrites = <<>>
    /\ reply = NoReply

InitRest ==
    /\ now = StartTime
    /\ recordings = <<>>
    /\ InitEngine

\* DvrSettings::default() for the keys run_cleanup reads: no row of
\* dvr_settings overrides them.
NoSettings == [keep_recordings_days |-> <<>>, auto_cleanup_enabled |-> <<>>]

\* No file is stored and run_cleanup is not running.
InitCleanupIdle ==
    /\ settings = NoSettings
    /\ files = <<>>
    /\ disk = NoDisk
    /\ cleanup = IdleCleanup

Init ==
    /\ schedules \in InitialTables
    /\ InitRest
    /\ InitCleanupIdle

\* ---------------------------------------------------------- scheduler.rs

\* poll_schedules, lines 118-150: count_scheduled, then the due schedules.
\* Runs are numbered in the order in which they read the store.
PollFetch(k) ==
    /\ ticks[k].pc = "idle"
    /\ IF k = 1 THEN TRUE ELSE ticks[k - 1].pc # "idle"
    /\ LET due == IF count_scheduled(schedules) = 0 THEN <<>>
                  ELSE get_scheduled_recordings(schedules, now,
                           SCHEDULING_WINDOW_SECONDS,
                           MISSED_RECORDING_GRACE_SECONDS)
       IN  ticks' = [ticks EXCEPT ![k] =
                        [pc |-> IF due = <<>> THEN "done" ELSE "starting",
                         due |-> due]]
    /\ UNCHANGED <<now, schedules, recordings, active, cancelSent, tasks, child,
                   events, calls, stopAll, lock, lastQuery, reply, CleanupVars,
                   dispatched, termWrites>>

\* start_recording for the next schedule of the loop of poll_schedules:
\* update_schedule_status(Recording), then tokio::spawn of the record() task.
StartRecording(k) ==
    /\ ticks[k].pc = "starting"
    /\ LET s == Head(ticks[k].due)
           rest == Tail(ticks[k].due)
       IN  /\ schedules' = update_schedule_status(schedules, s, "recording", now)
           /\ tasks' = [tasks EXCEPT ![<<k, s>>] =
                            [NoTaskState EXCEPT !.pc = "resolve"]]
           /\ dispatched' = [dispatched EXCEPT ![s] = @ + 1]
           /\ ticks' = [ticks EXCEPT ![k] =
                            [pc |-> IF rest = <<>> THEN "done" ELSE "starting",
                             due |-> rest]]
    /\ UNCHANGED <<now, recordings, active, cancelSent, child, events, calls,
                   stopAll, lock, lastQuery, termWrites, reply,
                   CleanupVars>>

\* ------------------------------------------------- recorder.rs: record()

SchedOf(t) == t[2]

\* Everything a step of a record() task leaves alone besides the variables
\* named in the step.
TaskFrame == <<now, ticks, calls, stopAll, lastQuery, dispatched, reply,
               CleanupVars>>

\* record(), lines 102-193: the capture URL is resolved (an error, such as no
\* URL for the channel, is returned with `?`); then add_recording (`?` on the
\* UNIQUE violation) and the started event.  Resolving reads nothing that
\* another task writes, so it is part of this step.
RecordAdd(t, resolved) ==
    /\ tasks[t].pc = "resolve"
    /\ LET path == generate_filename(schedules[SchedOf(t)])
       IN  IF ~resolved
           THEN /\ tasks' = [tasks EXCEPT ![t].pc = "callback",
                                 ![t].error = ErrorOf("No stream URL found")]
                /\ UNCHANGED <<recordings, termWrites, events>>
           ELSE IF PathTaken(recordings, path)
           THEN /\ tasks' = [tasks EXCEPT ![t].pc = "callback",
                                 ![t].error = ErrorOf("UNIQUE constraint failed")]
                /\ UNCHANGED <<recordings, termWrites, events>>
           ELSE /\ recordings' = add_recording(recordings, SchedOf(t), path)
                /\ termWrites' = Append(termWrites, 0)
                /\ events' = [events EXCEPT ![t] = Append(@, "started")]
                /\ tasks' = [tasks EXCEPT ![t].pc = "spawn",
                                 ![t].recording_id = Len(recordings) + 1]
    /\ UNCHANGED <<schedules, active, cancelSent, child, lock>>
    /\ UNCHANGED TaskFrame

\* record(), lines 199-239: cmd.spawn() (`?` on failure), then the handle is
\* inserted into active_recordings under the lock.
RecordSpawn(t, spawned) ==
    /\ tasks[t].pc = "spawn"
    /\ \/ /\ spawned
          /\ lock = "free"
          /\ child' = [child EXCEPT ![t] = "running"]
          /\ active' = [active EXCEPT ![SchedOf(t)] =
                            NewHandle(t, tasks[t].recording_id)]
          /\ tasks' = [tasks EXCEPT ![t].pc = "take"]
       \/ /\ ~spawned
          /\ tasks' = [tasks EXCEPT ![t].pc = "callback",
                           ![t].error = ErrorOf("Failed to spawn FFmpeg")]
          /\ UNCHANGED <<child, active>>
    /\ UNCHANGED <<schedules, recordings, cancelSent, events, lock, termWrites>>
    /\ UNCHANGED TaskFrame

\* wait_for_recording, lines 369-376: take the process out of the handle.
WaitTake(t) ==
    /\ tasks[t].pc = "take"
    /\ lock = "free"
    /\ LET h == active[SchedOf(t)]
       IN  IF h = NoHandle
           THEN /\ tasks' = [tasks EXCEPT ![t].pc = "dereg",
                                 ![t].error = ErrorOf("Recording handle not found")]
                /\ UNCHANGED active
           ELSE IF ~h.process
           THEN /\ tasks' = [tasks EXCEPT ![t].pc = "dereg",
                                 ![t].error = ErrorOf("Recording process already taken")]
                /\ UNCHANGED active
           ELSE /\ tasks' = [tasks EXCEPT ![t].pc = "select"]
                /\ active' = [active EXCEPT ![SchedOf(t)].process = FALSE]
    /\ UNCHANGED <<schedules, recordings, cancelSent, child, events, lock,
                   termWrites>>
    /\ UNCHANGED TaskFrame

\* wait_for_recording, select!: child.wait() is ready.  The process has exited
\* by itself with some status, having written some lines to stderr.
WaitExit(t, code, lines, drained) ==
    /\ tasks[t].pc = "select"
    /\ child[t] = "running"
    /\ tasks' = [tasks EXCEPT ![t].pc = "dereg", ![t].outcome = "exit",
                     ![t].error = WaitResult("exit", code, lines, drained),
                     ![t].stderr = IF code = 0 THEN <<>> ELSE lines]
    /\ child' = [child EXCEPT ![t] = "exited"]
    /\ UNCHANGED <<schedules, recordings, active, cancelSent, events, lock,
                   termWrites>>
    /\ UNCHANGED TaskFrame

\* cancel_rx.changed() is ready: a value was sent, or every sender is gone
\* because the handle that owns cancel_tx was removed from the table.
CancelReady(t) ==
    \/ cancelSent[t]
    \/ active[SchedOf(t)].task # t

\* wait_for_recording, select!: the cancellation branch; child.kill().
WaitCancel(t) ==
    /\ tasks[t].pc = "select"
    /\ CancelReady(t)
    /\ tasks' = [tasks EXCEPT ![t].pc = "dereg", ![t].outcome = "cancel",
                     ![t].error = WaitResult("cancel", 0, <<>>, TRUE)]
    /\ child' = [child EXCEPT ![t] = "killed"]
    /\ UNCHANGED <<schedules, recordings, active, cancelSent, events, lock,
                   termWrites>>
    /\ UNCHANGED TaskFrame

\* wait_for_recording, select!: the sleep(timeout) branch; child.kill().
WaitTimeout(t) ==
    /\ tasks[t].pc = "select"
    /\ tasks' = [tasks EXCEPT ![t].pc = "dereg", ![t].outcome = "timeout",
                     ![t].error = WaitResult("timeout", 0, <<>>, TRUE)]
    /\ child' = [child EXCEPT ![t] = "killed"]
    /\ UNCHANGED <<schedules, recordings, active, cancelSent, events, lock,
                   termWrites>>
    /\ UNCHANGED TaskFrame

\* A record() that returns without removing its handle
remove_handle_Keep(tbl, id) == tbl

\* HashMap::remove(&schedule.id): the entry is gone, if there was one
remove_handle(tbl, id) == [tbl EXCEPT ![id] = NoHandle]

\* record(), line 245: active_recordings.lock().remove(&schedule.id)
RecordDeregister(t) ==
    /\ tasks[t].pc = "dereg"
    /\ lock = "free"
    /\ active' = remove_handle(active, SchedOf(t))
    /\ tasks' = [tasks EXCEPT ![t].pc =
                     IF tasks[t].error = NoError THEN "ok_rec" ELSE "err_rec"]
    /\ UNCHANGED <<schedules, recordings, cancelSent, child, events, lock,
                   termWrites>>
    /\ UNCHANGED TaskFrame

\* record(), Ok arm, lines 252-263: the file size, then
\* update_recording_status(Completed, file_size, None).
RecordOkRecording(t, found) ==
    /\ tasks[t].pc = "ok_rec"
    /\ recordings' = update_recording_status(recordings, tasks[t].recording_id,
                         "completed", found, NoError)
    /\ termWrites' = [termWrites EXCEPT ![tasks[t].recording_id] = @ + 1]
    /\ tasks' = [tasks EXCEPT ![t].pc = "ok_sched"]
    /\ UNCHANGED <<schedules, active, cancelSent, child, events, lock>>
    /\ UNCHANGED TaskFrame

\* record(), Ok arm, lines 266-300: update_schedule_status(Completed), the
\* tokio::spawn of the thumbnail task, the completed event, Ok(()); the
\* task's closure then has nothing to write.
RecordOkSchedule(t) ==
    /\ tasks[t].pc = "ok_sched"
    /\ schedules' = update_schedule_status(schedules, SchedOf(t), "completed", now)
    /\ events' = [events EXCEPT ![t] = Append(@, "completed")]
    /\ tasks' = [tasks EXCEPT ![t].pc = "done", ![t].thumb = "requested"]
    /\ UNCHANGED <<recordings, active, cancelSent, child, lock, termWrites>>
    /\ UNCHANGED TaskFrame

\* record(), Err arm, lines 303-356: the file size, update_recording_status
\* (Partial or Failed, size, message), the tokio::spawn of the thumbnail task
\* `if file_size > 0`, the failed event, Err(e).
RecordErrRecording(t, found) ==
    /\ tasks[t].pc = "err_rec"
    /\ LET file_size == ErrFileSize(found)
       IN  /\ recordings' = update_recording_status(recordings,
                                 tasks[t].recording_id,
                                 ErrRecordingStatus(file_size), file_size,
                                 tasks[t].error)
           /\ tasks' = [tasks EXCEPT ![t].pc = "callback",
                            ![t].thumb = IF file_size > 0 THEN "requested"
                                         ELSE @]
    /\ termWrites' = [termWrites EXCEPT ![tasks[t].recording_id] = @ + 1]
    /\ events' = [events EXCEPT ![t] = Append(@, "failed")]
    /\ UNCHANGED <<schedules, active, cancelSent, child, lock>>
    /\ UNCHANGED TaskFrame

\* start_recording, lines 194-201: record() returned Err, so
\* update_schedule_status(Failed).  The captured output is gone with the task.
RecordFailed(t) ==
    /\ tasks[t].pc = "callback"
    /\ schedules' = on_record_error(schedules, SchedOf(t), now)
    /\ tasks' = [tasks EXCEPT ![t].pc = "done", ![t].stderr = <<>>]
    /\ UNCHANGED <<recordings, active, cancelSent, child, events, lock,
                   termWrites>>
    /\ UNCHANGED TaskFrame

\* ------------------------------------- lib.rs and recorder.rs: cancelling

CallFrame == <<now, recordings, tasks, events, ticks, stopAll, lock, lastQuery,
               dispatched, termWrites, reply, CleanupVars>>

\* Whether an earlier stop_recording(id) that found the job has returned.
StoppedBefore(c, id) ==
    \E d \in CallIds \ {c} :
        calls[d].pc = "done" /\ calls[d].id = id /\ calls[d].stop /\ calls[d].found

\* stop_recording, lines 466-477: look the handle up under the lock and send
\* true on its cancel_tx; Ok(()) at once when there is no handle.
StopSignal(c, id, command) ==
    /\ lock = "free"
    /\ IF id \in SchedIds /\ active[id] # NoHandle
       THEN /\ cancelSent' = [cancelSent EXCEPT ![active[id].task] = TRUE]
            /\ calls' = [calls EXCEPT ![c] =
                   [pc |-> "stop_take", id |-> id, command |-> command,
                    stop |-> TRUE, found |-> TRUE,
                    after |-> StoppedBefore(c, id)]]
       ELSE /\ UNCHANGED cancelSent
            /\ calls' = [calls EXCEPT ![c] =
                   [pc |-> IF command THEN "cancel" ELSE "done", id |-> id,
                    command |-> command, stop |-> TRUE, found |-> FALSE,
                    after |-> StoppedBefore(c, id)]]
    /\ UNCHANGED <<schedules, active, child>>
    /\ UNCHANGED CallFrame

\* The command cancel_recording(id), lines 761-770: get_schedule, and
\* stop_recording only when the status read is Recording.
CancelRecording(c, id) ==
    /\ calls[c].pc = "idle"
    /\ IF c = 1 THEN TRUE ELSE calls[c - 1].pc # "idle"
    /\ calls' = [calls EXCEPT ![c] =
           [IdleCall EXCEPT !.id = id, !.command = TRUE,
               !.pc = IF id \in SchedIds /\ schedules[id].status = "recording"
                      THEN "stop_signal" ELSE "cancel"]]
    /\ UNCHANGED <<schedules, active, cancelSent, child>>
    /\ UNCHANGED CallFrame

\* stop_recording(id) as called by cancel_recording
CancelRecordingStop(c) ==
    /\ calls[c].pc = "stop_signal"
    /\ StopSignal(c, calls[c].id, TRUE)

\* RecordingManager::stop_recording(schedule_id) called on its own
StopRecording(c, id) ==
    /\ calls[c].pc = "idle"
    /\ IF c = 1 THEN TRUE ELSE calls[c - 1].pc # "idle"
    /\ StopSignal(c, id, FALSE)

\* stop_recording, lines 479-497: after the sleep, take the process out of the
\* handle if it is still there and kill it.
StopTake(c) ==
    /\ calls[c].pc = "stop_take"
    /\ lock = "free"
    /\ LET id == calls[c].id
           h == active[id]
       IN  /\ active' = stop_take_process(active, id)
           /\ child' = IF process_taken(h)
                       THEN [child EXCEPT ![h.task] = "killed"]
                       ELSE child
    /\ calls' = [calls EXCEPT ![c].pc =
                     IF calls[c].command THEN "cancel" ELSE "done"]
    /\ UNCHANGED <<schedules, cancelSent>>
    /\ UNCHANGED CallFrame

\* cancel_recording, lines 772-777: cancel_schedule(id)
CancelSchedule(c) ==
    /\ calls[c].pc = "cancel"
    /\ schedules' = cancel_schedule(schedules, calls[c].id)
    /\ calls' = [calls EXCEPT ![c].pc = "done"]
    /\ UNCHANGED <<active, cancelSent, child>>
    /\ UNCHANGED CallFrame

\* ------------------------------------ recorder.rs: stop_all_recordings()

StopAllFrame == <<now, recordings, cancelSent, tasks, events, ticks, calls,
                  lastQuery, dispatched, termWrites, reply, CleanupVars>>

\* lines 502-505: the keys of the table, copied under the lock
StopAllBegin ==
    /\ stopAll.pc = "idle"
    /\ lock = "free"
    /\ LET keys == {s \in SchedIds : active[s] # NoHandle}
       IN  stopAll' = [stopAll EXCEPT !.keys = keys,
                           !.pc = IF keys = {} THEN "done" ELSE "loop"]
    /\ UNCHANGED <<schedules, active, child, lock>>
    /\ UNCHANGED StopAllFrame

\* lines 509-513: `if let Some(handle) = active_recordings.lock().remove(id)`,
\* then the kill of the process if the handle still has it.  The guard is a
\* temporary of the scrutinee: it lives to the end of the block, so the lock
\* stays held over the kill and over the status update.
StopAllRemove(s) ==
    /\ stopAll.pc = "loop"
    /\ s \in stopAll.keys
    /\ lock = "free"
    /\ IF active[s] # NoHandle
       THEN /\ active' = [active EXCEPT ![s] = NoHandle]
            /\ child' = IF process_taken(active[s])
                        THEN [child EXCEPT ![active[s].task] = "killed"]
                        ELSE child
            /\ lock' = "stop_all"
            /\ stopAll' = [stopAll EXCEPT !.pc = "mark", !.cur = s]
       ELSE /\ UNCHANGED <<active, child, lock>>
            /\ stopAll' = [stopAll EXCEPT !.keys = @ \ {s},
                               !.pc = IF stopAll.keys = {s} THEN "done" ELSE "loop"]
    /\ UNCHANGED schedules
    /\ UNCHANGED StopAllFrame

\* lines 515-517: update_schedule_status(Canceled); the guard is dropped.
StopAllMark ==
    /\ stopAll.pc = "mark"
    /\ schedules' = update_schedule_status(schedules, stopAll.cur, "canceled", now)
    /\ lock' = "free"
    /\ stopAll' = [stopAll EXCEPT !.keys = @ \ {stopAll.cur},
                       !.marked = @ \cup {stopAll.cur},
                       !.pc = IF stopAll.keys = {stopAll.cur} THEN "done" ELSE "loop"]
    /\ UNCHANGED <<active, child>>
    /\ UNCHANGED StopAllFrame

\* ------------------------------------------------------------------ Next

\* The steps of the record() task t, with what the environment may answer:
\* exit codes, stderr outputs, whether stderr was drained in time, file sizes.
RecordTask(t, codes, outputs, drains, sizes) ==
    \/ \E resolved \in BOOLEAN : RecordAdd(t, resolved)
    \/ \E spawned \in BOOLEAN : RecordSpawn(t, spawned)
    \/ WaitTake(t)
    \/ \E code \in codes, lines \in outputs, drained \in drains :
          WaitExit(t, code, lines, drained)
    \/ WaitCancel(t)
    \/ WaitTimeout(t)
    \/ RecordDeregister(t)
    \/ \E found \in sizes : RecordOkRecording(t, found)
    \/ RecordOkSchedule(t)
    \/ \E found \in sizes : RecordErrRecording(t, found)
    \/ RecordFailed(t)

Poll(runs) == \E k \in runs : PollFetch(k) \/ StartRecording(k)

CancelCommand(cs) ==
    \E c \in cs :
        \/ \E id \in SchedIds \cup {UnknownId} : CancelRecording(c, id)
        \/ CancelRecordingStop(c)
        \/ StopTake(c)
        \/ CancelSchedule(c)

StopCalls(cs) ==
    \E c \in cs :
        \/ \E id \in SchedIds \cup {UnknownId} : StopRecording(c, id)
        \/ StopTake(c)

StopAll ==
    \/ StopAllBegin
    \/ \E s \in SchedIds : StopAllRemove(s)
    \/ StopAllMark

\* The diagnostic output and file sizes of the runs of Spec
OneOutput == {<<<<"Conversion failed!">>>>}
SomeSizes == {0, 1024}
FirstRun == {1}
FirstCall == {1}

\* One run of poll_schedules, its record() tasks, one cancel_recording command
\* and stop_all_recordings.
Next ==
    \/ Poll(FirstRun)
    \/ \E t \in FirstRun \X SchedIds :
          RecordTask(t, ExitCodes, OneOutput, {TRUE}, SomeSizes)
    \/ CancelCommand(FirstCall)
    \/ StopAll

Spec == Init /\ [][Next]_vars

\* Runs of poll_schedules that may overlap, their record() tasks and
\* stop_all_recordings.
NextPoll ==
    \/ Poll(TickIds)
    \/ \E t \in TaskIds : RecordTask(t, ExitCodes, OneOutput, {TRUE}, SomeSizes)
    \/ StopAll

SpecPoll == Init /\ [][NextPoll]_vars

\* One run of poll_schedules, its record() tasks, two stop_recording calls
\* and stop_all_recordings.
NextStop ==
    \/ Poll(FirstRun)
    \/ \E t \in FirstRun \X SchedIds :
          RecordTask(t, ExitCodes, OneOutput, {TRUE}, SomeSizes)
    \/ StopCalls(CallIds)
    \/ StopAll

SpecStop == Init /\ [][NextStop]_vars

\* As Next, with every exit status, diagnostic output and file size.
NextExit ==
    \/ Poll(FirstRun)
    \/ \E t \in FirstRun \X SchedIds :
          RecordTask(t, ExitCodes, StderrOutputs, BOOLEAN, FileSizes)
    \/ CancelCommand(FirstCall)
    \/ StopAll

SpecExit == Init /\ [][NextExit]_vars

\* ------------------------------------------- get_scheduled_recordings alone

\* Tables for the query: rows that are still scheduled (started_at NULL) and
\* rows that start_recording has marked (started_at set), with start times
\* and paddings on both sides of every bound of the WHERE clause.
QueryStarts == {700, 1040, 1050, 1200}
QueryPaddings == {60, 200}
QueryRows ==
    NewScheduleRows(QueryStarts, QueryPaddings, {"news"})
    \cup {[r EXCEPT !.status = "recording", !.started_at = StartTime] :
             r \in NewScheduleRows(QueryStarts, QueryPaddings, {"news"})}

InitDue ==
    /\ schedules \in [SchedIds -> QueryRows]
    /\ InitRest
    /\ InitCleanupIdle

\* The callers of get_scheduled_recordings: poll_schedules with the constants
\* of scheduler.rs, and the command of lib.rs with (86400, 3600).
QueryWindows == {<<SCHEDULING_WINDOW_SECONDS, MISSED_RECORDING_GRACE_SECONDS>>,
                 <<86400, 3600>>}

GetScheduledRecordings(window_seconds, grace_period_seconds) ==
    /\ lastQuery' = [now |-> now, window |-> window_seconds,
                     grace |-> grace_period_seconds,
                     result |-> get_scheduled_recordings(schedules, now,
                                    window_seconds, grace_period_seconds)]
    /\ UNCHANGED <<now, schedules, recordings, active, cancelSent, tasks, child,
                   events, ticks, calls, stopAll, lock, dispatched, termWrites,
                   reply, CleanupVars>>

NextDue == \E w \in QueryWindows : GetScheduledRecordings(w[1], w[2])

SpecDue == InitDue /\ [][NextDue]_vars

\* ---------------------------------------------------- check_conflicts alone

\* A check_conflicts for which intervals that only touch conflict as well
check_conflicts_AdjacentToo(tbl, source_id, start, end) ==
    {i \in DOMAIN tbl :
        /\ tbl[i].source_id = source_id
        /\ tbl[i].status \in {"scheduled", "recording"}
        /\ ~(tbl[i].scheduled_end < start \/ tbl[i].scheduled_start > end)}

\* DvrDatabase::check_conflicts: the rows of the source that are scheduled or
\* recording, with NOT (scheduled_end <= ?2 OR scheduled_start >= ?3).  The
\* statement has no ORDER BY; the rows returned are given as a set of ids.
check_conflicts(tbl, source_id, start, end) ==
    {i \in DOMAIN tbl :
        /\ tbl[i].source_id = source_id
        /\ tbl[i].status \in {"scheduled", "recording"}
        /\ ~(tbl[i].scheduled_end <= start \/ tbl[i].scheduled_start >= end)}

\* Sources, statuses and programme times of the rows and of the calls:
\* intervals that overlap, that touch, and that are apart.
Sources == {"a", "b"}
ConflictStatuses == {"scheduled", "recording", "completed", "canceled"}
Intervals == {<<100, 200>>, <<150, 250>>, <<200, 300>>}
CallIntervals == Intervals \cup {<<150, 150>>}

ConflictRows ==
    {[source_id |-> src, status |-> st,
      scheduled_start |-> iv[1], scheduled_end |-> iv[2],
      start_padding_sec |-> 60, end_padding_sec |-> 300,
      started_at |-> IF st = "scheduled" THEN NULL ELSE StartTime,
      channel_name |-> "ch", program_title |-> "news"] :
        src \in Sources, st \in ConflictStatuses, iv \in Intervals}

InitConflicts ==
    /\ schedules \in [SchedIds -> ConflictRows]
    /\ InitRest
    /\ InitCleanupIdle

\* One call check_conflicts(source_id, start, end)
CheckConflicts(source_id, start, end) ==
    /\ reply' = [op |-> "check_conflicts", source_id |-> source_id,
                 start |-> start, end |-> end,
                 result |-> check_conflicts(schedules, source_id, start, end)]
    /\ UNCHANGED <<now, schedules, recordings, active, cancelSent, tasks, child,
                   events, ticks, calls, stopAll, lock, lastQuery, dispatched,
                   termWrites, CleanupVars>>

NextConflicts ==
    \E src \in Sources, iv \in CallIntervals : CheckConflicts(src, iv[1], iv[2])

SpecConflicts == InitConflicts /\ [][NextConflicts]_vars

\* ------------------------------------------- add_schedule and get_schedule

default_start_padding == 60
default_end_padding == 300

\* An optional value is a sequence: <<>> when it is absent (a field the JSON
\* of the request omits, None, SQL NULL), <<v>> when it is v.
Absent == <<>>

\* The ScheduleRequest values the command schedule_recording is called with,
\* as the JSON carries them: the paddings may be omitted.
RequestStarts == {100, 200}
RequestEnds == {100, 200, 300}
Requests ==
    [source_id : {"a"}, channel_id : {"c1"}, channel_name : {"ch"},
     program_title : {"news"},
     scheduled_start : RequestStarts, scheduled_end : RequestEnds,
     start_padding_sec : {Absent, <<0>>}, end_padding_sec : {Absent, <<0>>},
     series_match_title : {Absent}, recurrence : {Absent},
     stream_url : {Absent, <<"http://u">>}]

\* A Deserialize that fills an omitted padding with 0
Deserialize_ZeroPadding(json) ==
    [json EXCEPT
        !.start_padding_sec = IF @ = Absent THEN 0 ELSE @[1],
        !.end_padding_sec = IF @ = Absent THEN 0 ELSE @[1]]

\* serde's Deserialize of ScheduleRequest: #[serde(default = ...)] on the
\* paddings, #[serde(default)] (None) on the optional fields.
Deserialize(json) ==
    [json EXCEPT
        !.start_padding_sec = IF @ = Absent THEN default_start_padding ELSE @[1],
        !.end_padding_sec = IF @ = Absent THEN default_end_padding ELSE @[1]]

\* DvrDatabase::add_schedule: the INSERT of the request's fields with status
\* 'scheduled' and created_at; started_at is left NULL.  No field is checked.
\* The table is the sequence of its rows and the new id is the new rowid.
add_schedule(tbl, request, t) ==
    Append(tbl, [source_id |-> request.source_id,
                 channel_id |-> request.channel_id,
                 channel_name |-> request.channel_name,
                 program_title |-> request.program_title,
                 scheduled_start |-> request.scheduled_start,
                 scheduled_end |-> request.scheduled_end,
                 start_padding_sec |-> request.start_padding_sec,
                 end_padding_sec |-> request.end_padding_sec,
                 series_match_title |-> request.series_match_title,
                 recurrence |-> request.recurrence,
                 status |-> "scheduled",
                 created_at |-> t,
                 started_at |-> NULL,
                 stream_url |-> request.stream_url])

\* ScheduleStatus::from_str(..).unwrap_or(ScheduleStatus::Scheduled); a status
\* is written here by its as_str() name.
ScheduleStatusFromStr(str) ==
    IF str \in {"scheduled", "recording", "completed", "failed", "canceled"}
    THEN str ELSE "scheduled"

\* DvrDatabase::get_schedule: the row of the id, if any, as a Schedule
get_schedule(tbl, id) ==
    IF id \in DOMAIN tbl
    THEN <<[tbl[id] EXCEPT !.status = ScheduleStatusFromStr(@)]>>
    ELSE Absent

InitAdd ==
    /\ schedules = <<>>
    /\ InitRest
    /\ InitCleanupIdle

\* The command schedule_recording(request): add_schedule, and the new id is
\* returned.
ScheduleRecording(json) ==
    /\ Len(schedules) < NumSchedules
    /\ schedules' = add_schedule(schedules, Deserialize(json), now)
    /\ reply' = [op |-> "schedule_recording", request |-> json,
                 before |-> schedules, id |-> Len(schedules) + 1]
    /\ UNCHANGED <<now, recordings, active, cancelSent, tasks, child, events,
                   ticks, calls, stopAll, lock, lastQuery, dispatched,
                   termWrites, CleanupVars>>

NextAdd == \E json \in Requests : ScheduleRecording(json)

SpecAdd == InitAdd /\ [][NextAdd]_vars

\* ------------------------------------------ poll_schedules: store failures

\* poll_schedules, lines 122 and 135-139: count_scheduled or
\* get_scheduled_recordings returns Err and `?` returns it; the caller
\* (the job of Scheduler::start, lines 68-72, or the initial poll, lines
\* 85-87) logs it.
PollFails(k) ==
    /\ ticks[k].pc = "idle"
    /\ IF k = 1 THEN TRUE ELSE ticks[k - 1].pc # "idle"
    /\ ticks' = [ticks EXCEPT ![k] = [pc |-> "failed", due |-> <<>>]]
    /\ UNCHANGED <<now, schedules, recordings, active, cancelSent, tasks, child,
                   events, calls, stopAll, lock, lastQuery, reply, CleanupVars,
                   dispatched, termWrites>>

\* A loop of poll_schedules that returns the error of start_recording
LoopAfterError_Return(rest) == [pc |-> "failed", due |-> <<>>]

\* poll_schedules, lines 158-166: the error of start_recording is logged and
\* the loop goes on with the schedules that remain.
LoopAfterError(rest) ==
    [pc |-> IF rest = <<>> THEN "done" ELSE "starting", due |-> rest]

\* start_recording, line 185: update_schedule_status(Recording) returns Err
\* (the UPDATE did not happen) and `?` returns it before the task is spawned.
StartRecordingFails(k) ==
    /\ ticks[k].pc = "starting"
    /\ ticks' = [ticks EXCEPT ![k] = LoopAfterError(Tail(ticks[k].due))]
    /\ UNCHANGED <<now, schedules, recordings, active, cancelSent, tasks, child,
                   events, calls, stopAll, lock, lastQuery, reply, CleanupVars,
                   dispatched, termWrites>>

\* Tables in which every schedule is due
DueTables ==
    [SchedIds -> NewScheduleRows({1040}, {60}, Titles)]

InitTick ==
    /\ schedules \in DueTables
    /\ InitRest
    /\ InitCleanupIdle

\* Runs of poll_schedules in which the store may fail.  The record() tasks
\* they spawn are left where start_recording spawned them.
NextTick ==
    \/ Poll(TickIds)
    \/ \E k \in TickIds : PollFails(k) \/ StartRecordingFails(k)

SpecTick == InitTick /\ [][NextTick]_vars

\* ------------------------------------------------------------ cleanup.rs

MIN_FREE_SPACE_PERCENT == 10
default_max_disk_usage_percent == 80
default_keep_recordings_days == 30

\* chrono::Duration::days(1) in seconds
SecondsPerDay == 86400

\* str::parse::<i32> of the values a row of dvr_settings holds here
ParseI32(value) ==
    CASE value = "2" -> <<2>>
      [] value = "30" -> <<30>>
      [] OTHER -> Absent

\* DvrDatabase::get_settings: DvrSettings::default(), then every row of
\* dvr_settings overrides its key; a keep_recordings_days that does not parse
\* leaves the default, and no value makes the field None.
get_settings(tbl) ==
    [max_disk_usage_percent |-> default_max_disk_usage_percent,
     auto_cleanup_enabled |->
         IF tbl.auto_cleanup_enabled = Absent THEN TRUE
         ELSE tbl.auto_cleanup_enabled[1] \in {"true", "1"},
     keep_recordings_days |->
         IF tbl.keep_recordings_days = Absent
            THEN <<default_keep_recordings_days>>
         ELSE IF ParseI32(tbl.keep_recordings_days[1]) = Absent
            THEN <<default_keep_recordings_days>>
         ELSE ParseI32(tbl.keep_recordings_days[1])]

\* ORDER BY actual_end DESC: SQLite sorts NULL before every value, so last
\* when descending.
RECURSIVE OrderByActualEndDesc(_, _)
OrderByActualEndDesc(recs, ids) ==
    IF ids = {} THEN <<>>
    ELSE LET EndKey(i) == IF recs[i].actual_end = Absent THEN NULL
                          ELSE recs[i].actual_end[1]
             first == CHOOSE i \in ids : \A j \in ids :
                          \/ EndKey(i) > EndKey(j)
                          \/ EndKey(i) = EndKey(j) /\ i <= j
         IN  <<recs[first]>> \o OrderByActualEndDesc(recs, ids \ {first})

\* A get_completed_recordings without the WHERE clause
get_completed_recordings_All(recs) == OrderByActualEndDesc(recs, DOMAIN recs)

\* DvrDatabase::get_completed_recordings
get_completed_recordings(recs) ==
    OrderByActualEndDesc(recs, {i \in DOMAIN recs :
                                   recs[i].status \in {"completed", "partial"}})

\* DvrDatabase::delete_recording: DELETE FROM dvr_recordings WHERE id = ?1.
\* The paths it returns are dropped by the three callers in cleanup.rs.
delete_recording(recs, id) == [i \in DOMAIN recs \ {id} |-> recs[i]]

\* recording.actual_end.unwrap_or(recording.created_at)
effective_end(r) == IF r.actual_end = Absent THEN r.created_at ELSE r.actual_end[1]

\* file_path.exists(), and tokio::fs::remove_file on a file that exists: Err
\* for a file that cannot be removed, else the file is gone and its space is
\* free.
exists(fs, id) == fs[id].media # "missing"
remove_fails(fs, id) == fs[id].media = "locked"
remove_file(fs, id) == [fs EXCEPT ![id].media = "missing"]

\* A pass that returns when remove_file fails
AfterRemoveFailure_Abort(c) == [c EXCEPT !.pc = "done", !.queue = <<>>]

\* The three loops, lines 175-178, 236-239 and 274-277: the failure is
\* logged and `continue` goes to the next recording.
AfterRemoveFailure(c) == [c EXCEPT !.queue = Tail(@)]

\* What a step of run_cleanup leaves alone besides the table, the files and
\* the disk
CleanupFrame == <<now, schedules, active, cancelSent, tasks, child, events,
                  ticks, calls, stopAll, lock, lastQuery, dispatched,
                  termWrites, reply, settings>>

\* The end of an iteration that removes the file of r, if there is one, and
\* deletes the row of r: lines 172-186, 233-249, 272-285.
DeleteFileAndRow(r, freed) ==
    /\ files' = IF exists(files, r.id) THEN remove_file(files, r.id) ELSE files
    /\ disk' = IF exists(files, r.id)
               THEN [disk EXCEPT !.used = @ - files[r.id].size]
               ELSE disk
    /\ recordings' = delete_recording(recordings, r.id)
    /\ cleanup' = [cleanup EXCEPT
                      !.queue = Tail(@),
                      !.bytes_freed = @ + freed,
                      !.deleted = Append(@, [pass |-> cleanup.pc, id |-> r.id])]

\* An iteration that fails to remove the file of r
RemoveFails ==
    /\ cleanup' = AfterRemoveFailure(cleanup)
    /\ UNCHANGED <<recordings, files, disk>>

\* An iteration that `continue`s before it touches anything
Continue ==
    /\ cleanup' = [cleanup EXCEPT !.queue = Tail(@)]
    /\ UNCHANGED <<recordings, files, disk>>

\* run_cleanup, lines 65-94: the settings and the disk usage are read once,
\* then delete_old_recordings (lines 153-156) computes the cutoff and fetches
\* the recordings.
RunCleanup ==
    /\ cleanup.pc = "idle"
    /\ LET keep == get_settings(settings).keep_recordings_days
       IN  cleanup' = [cleanup EXCEPT
               !.pc = "age",
               !.disk_info = disk,
               !.cutoff = IF keep = Absent THEN 0
                          ELSE now - keep[1] * SecondsPerDay,
               !.queue = IF keep = Absent THEN <<>>
                         ELSE get_completed_recordings(recordings),
               !.before = [recordings |-> recordings, files |-> files]]
    /\ UNCHANGED <<recordings, files, disk, CleanupFrame>>

\* delete_old_recordings, lines 158-195: one iteration of the loop
DeleteOldRecordings ==
    /\ cleanup.pc = "age"
    /\ cleanup.queue # <<>>
    /\ LET r == Head(cleanup.queue)
       IN  IF effective_end(r) > cleanup.cutoff THEN Continue
           ELSE IF r.auto_delete_policy = "never" THEN Continue
           ELSE IF exists(files, r.id) /\ remove_fails(files, r.id)
                THEN RemoveFails
           ELSE DeleteFileAndRow(r, 0)
    /\ UNCHANGED CleanupFrame

\* run_cleanup, lines 96-103, after the loop of delete_old_recordings, and
\* enforce_quota, lines 207-220: the test uses the usage read at line 80,
\* the target uses the total of a fresh get_disk_info.
EnforceQuotaBegin ==
    /\ cleanup.pc = "age"
    /\ cleanup.queue = <<>>
    /\ LET s == get_settings(settings)
           info == cleanup.disk_info
           over == /\ s.auto_cleanup_enabled
                   /\ info.used * 100 > s.max_disk_usage_percent * info.total
           current_used == info.used
           target_bytes == (disk.total * s.max_disk_usage_percent) \div 100
           go == over /\ current_used > target_bytes
       IN  cleanup' = [cleanup EXCEPT
               !.pc = "quota",
               !.bytes_to_free = IF go THEN current_used - target_bytes ELSE 0,
               !.bytes_freed = 0,
               !.queue = IF go THEN get_completed_recordings(recordings)
                         ELSE <<>>]
    /\ UNCHANGED <<recordings, files, disk, CleanupFrame>>

\* enforce_quota, lines 222-255: one iteration of the loop; bytes_freed grows
\* by size_bytes.unwrap_or(0) when the file existed.
EnforceQuota ==
    /\ cleanup.pc = "quota"
    /\ cleanup.queue # <<>>
    /\ LET r == Head(cleanup.queue)
       IN  IF cleanup.bytes_freed >= cleanup.bytes_to_free
              THEN /\ cleanup' = [cleanup EXCEPT !.queue = <<>>]
                   /\ UNCHANGED <<recordings, files, disk>>
           ELSE IF r.auto_delete_policy = "never" THEN Continue
           ELSE IF exists(files, r.id) /\ remove_fails(files, r.id)
                THEN RemoveFails
           ELSE DeleteFileAndRow(r,
                    IF ~exists(files, r.id) \/ r.size_bytes = Absent THEN 0
                    ELSE r.size_bytes[1])
    /\ UNCHANGED CleanupFrame

\* run_cleanup, lines 105-112, after enforce_quota, and emergency_cleanup,
\* lines 265-270: the test uses the usage read at line 80.
EmergencyBegin ==
    /\ cleanup.pc = "quota"
    /\ cleanup.queue = <<>>
    /\ LET info == cleanup.disk_info
           critical == info.used * 100 >
                          (100 - MIN_FREE_SPACE_PERCENT) * info.total
           all == get_completed_recordings(recordings)
           to_delete == Len(all) \div 2
       IN  cleanup' = [cleanup EXCEPT
               !.pc = "emergency",
               !.queue = IF critical THEN SubSeq(all, 1, to_delete) ELSE <<>>]
    /\ UNCHANGED <<recordings, files, disk, CleanupFrame>>

\* emergency_cleanup, lines 272-287: one iteration of the loop
EmergencyCleanup ==
    /\ cleanup.pc = "emergency"
    /\ cleanup.queue # <<>>
    /\ LET r == Head(cleanup.queue)
       IN  IF exists(files, r.id) /\ remove_fails(files, r.id) THEN RemoveFails
           ELSE DeleteFileAndRow(r, 0)
    /\ UNCHANGED CleanupFrame

\* An update_recording_size that writes nothing
update_recording_size_Skip(recs, id, size_bytes) == recs

\* DvrDatabase::update_recording_size:
\* UPDATE dvr_recordings SET size_bytes = ?1 WHERE id = ?2
update_recording_size(recs, id, size_bytes) ==
    [recs EXCEPT ![id].size_bytes = <<size_bytes>>]

\* update_recording_sizes, lines 293-312, and the end of run_cleanup: every
\* recording of get_completed_recordings whose file has metadata gets the
\* length of the file, one UPDATE by id each.
UpdateRecordingSizes ==
    /\ cleanup.pc = "emergency"
    /\ cleanup.queue = <<>>
    /\ recordings' =
           [i \in DOMAIN recordings |->
               IF /\ recordings[i].status \in {"completed", "partial"}
                  /\ exists(files, i)
               THEN update_recording_size(recordings, i, files[i].size)[i]
               ELSE recordings[i]]
    /\ cleanup' = [cleanup EXCEPT !.pc = "done"]
    /\ UNCHANGED <<files, disk, CleanupFrame>>

\* The end of a record() whose job is recording while run_cleanup runs: the
\* Ok arm (lines 252-263) writes Completed with the size of the file, or no
\* size when metadata fails; the Err arm (lines 306-322) writes Partial or
\* Failed with the size or 0.  update_recording_status sets actual_end.
RecordingEnds(i, ok) ==
    /\ i \in DOMAIN recordings
    /\ recordings[i].status = "recording"
    /\ LET found == IF exists(files, i) THEN files[i].size ELSE NULL
       IN  recordings' =
              [recordings EXCEPT ![i] =
                  [@ EXCEPT
                      !.status = IF ok THEN "completed"
                                 ELSE ErrRecordingStatus(ErrFileSize(found)),
                      !.size_bytes = IF ~ok THEN <<ErrFileSize(found)>>
                                     ELSE IF found = NULL THEN @
                                     ELSE <<found>>,
                      !.actual_end = <<now>>]]
    /\ UNCHANGED <<files, disk, cleanup, CleanupFrame>>

\* The recordings, files, disk and settings a run of run_cleanup may find.
\* Recording i ended Ages[i] days before the run; 1 and 4 have a thumbnail.
\* Every file takes FileSize of a disk of 100; the disk is 75, 85 or 95 used.
\* The row of recording 4 may hold the size 0 that add_recording gave it (a
\* record() whose metadata call failed leaves it).  Recording 3 may be the
\* one of a job that is recording: size 0 and no actual_end yet.
RecordingIds == {1, 2, 3, 4}
Ages == <<31, 3, 1, 0>>
ThumbnailIds == {1, 4}
CleanupTime == 40 * SecondsPerDay
FileSize == 10

RecordingRow(i, status, policy) ==
    [id |-> i, status |-> status,
     actual_end |-> <<CleanupTime - Ages[i] * SecondsPerDay>>,
     created_at |-> CleanupTime - Ages[i] * SecondsPerDay - 3600,
     size_bytes |-> <<FileSize>>, auto_delete_policy |-> policy,
     thumbnail_path |-> IF i \in ThumbnailIds THEN <<"thumb">> ELSE Absent]

InitCleanup ==
    /\ now = CleanupTime
    /\ schedules = <<>>
    /\ InitEngine
    /\ \E st \in [RecordingIds -> {"recording", "completed", "partial", "failed"}],
          policy \in [RecordingIds -> {"space_needed", "never"}] :
          /\ st[1] = "completed" /\ st[2] = "partial" /\ st[4] = "completed"
          /\ st[3] # "partial"
          /\ \E stale \in BOOLEAN :
                recordings =
                   [i \in RecordingIds |->
                       [RecordingRow(i, st[i], policy[i]) EXCEPT
                           !.size_bytes =
                               IF (stale /\ i = 4) \/ st[i] = "recording"
                               THEN <<0>> ELSE @,
                           !.actual_end =
                               IF st[i] = "recording" THEN Absent ELSE @]]
    /\ \E media \in [RecordingIds -> {"present", "locked", "missing"}] :
          files = [i \in RecordingIds |->
                     [media |-> media[i], size |-> FileSize,
                      thumb |-> i \in ThumbnailIds]]
    /\ \E used \in {75, 85, 95} : disk = [total |-> 100, used |-> used]
    /\ settings \in [keep_recordings_days : {Absent, <<"2">>},
                     auto_cleanup_enabled : {Absent, <<"false">>}]
    /\ cleanup = IdleCleanup

NextCleanup ==
    \/ RunCleanup
    \/ DeleteOldRecordings
    \/ EnforceQuotaBegin
    \/ EnforceQuota
    \/ EmergencyBegin
    \/ EmergencyCleanup
    \/ UpdateRecordingSizes
    \/ \E i \in RecordingIds, ok \in BOOLEAN : RecordingEnds(i, ok)

SpecCleanup == InitCleanup /\ [][NextCleanup]_vars

\* ------------------------------------- stream_resolver.rs and record(): URL

\* A URL is the sequence of its pieces between '/', and a piece is a sequence
\* of words: "http://host/live/user/pass/7.ts" is
\* <<<<"http:">>, <<>>, <<"host">>, <<"live">>, <<"user">>, <<"pass">>,
\*   <<"7", ".ts">>>>.  str::contains(".m3u8") and str::contains('.') look
\* for a word, str::starts_with("stalker_") looks at the first word.
Contains(text, words) ==
    \E p \in DOMAIN text : \E w \in DOMAIN text[p] : text[p][w] \in words
StartsWith(url, word) ==
    url # <<>> /\ url[1] # <<>> /\ url[1][1] = word

\* `SELECT direct_url FROM channels WHERE <column> = ?1` with optional():
\* the direct_url of the first row that matches, if any.  channels is the
\* sequence of the rows in rowid order.
direct_url_where(channels, column, value) ==
    LET hits == {n \in DOMAIN channels : channels[n][column] = value}
    IN  IF hits = {} THEN Absent
        ELSE <<channels[CHOOSE n \in hits : \A m \in hits : n <= m].direct_url>>

\* A resolver that prefers the stored direct_url to everything else
resolve_stream_url_StoredFirst(schedule, channels) ==
    LET stored == direct_url_where(channels, "stream_id", schedule.channel_id)
    IN  IF stored # Absent THEN stored
        ELSE schedule.stream_url

\* resolve_stream_url with get_source_config, parse_xtream_url,
\* generate_xtream_url and get_stored_url; Absent is the Err of
\* get_stored_url.  parse_xtream_url finds the first piece "live" and needs
\* three more pieces after it; the pieces before it are the base, which has
\* no trailing '/' to trim.  generate_xtream_url appends ".ts" to a stream id
\* without '.'.
resolve_stream_url(schedule, channels) ==
    LET stored == direct_url_where(channels, "stream_id", schedule.channel_id)
        any == IF StartsWith(<<schedule.source_id>>, "xtream_")
               THEN direct_url_where(channels, "source_id", schedule.source_id)
               ELSE Absent
        lives == IF any = Absent THEN {}
                 ELSE {p \in DOMAIN any[1] : any[1][p] = <<"live">>}
        live == CHOOSE p \in lives : \A q \in lives : p <= q
        parsed == lives # {} /\ Len(any[1]) > (live - 1) + 3
        stream_id == IF Contains(<<schedule.channel_id>>, {".ts", ".m3u8"})
                     THEN schedule.channel_id
                     ELSE schedule.channel_id \o <<".ts">>
    IN  IF schedule.stream_url # Absent THEN schedule.stream_url
        ELSE IF parsed
             THEN <<SubSeq(any[1], 1, live - 1)
                     \o <<<<"live">>, any[1][live + 1], any[1][live + 2],
                          stream_id>>>>
        ELSE stored

\* record(), lines 103-117: needs_url_resolution
needs_url_resolution(schedule, channels) ==
    LET is_hls == schedule.stream_url # Absent
                     /\ Contains(schedule.stream_url[1], {".m3u8"})
        direct_url == direct_url_where(channels, "stream_id",
                                       schedule.channel_id)
        is_stalker_channel == direct_url # Absent
                                 /\ StartsWith(direct_url[1], "stalker_")
    IN  is_hls \/ is_stalker_channel

\* record(), lines 122-156: the URL to capture.  `row` is the schedule as
\* get_schedule returns it 1.5 s after dvr:resolve_url_now was emitted.
record_stream_url(schedule, row, channels) ==
    IF needs_url_resolution(schedule, channels) /\ row.stream_url # Absent
    THEN row.stream_url
    ELSE resolve_stream_url(schedule, channels)

\* Schedules of channel 7 of an Xtream, an M3U or a Stalker source, with or
\* without a URL of their own, and the channels table: channel 7 with one of
\* three kinds of direct_url or without a row, after channel 9 of some source.
InitResolve ==
    /\ now = StartTime
    /\ recordings = <<>>
    /\ InitEngine
    /\ InitCleanupIdle
    /\ schedules \in
          [SchedIds ->
              [status : {"recording"}, channel_id : {<<"7">>},
               source_id : {<<"xtream_", "1">>, <<"m3u_", "1">>,
                            <<"stalker_", "1">>},
               stream_url : {Absent,
                             <<<<<<"http:">>, <<>>, <<"cdn">>, <<"a", ".ts">>>>>>,
                             <<<<<<"http:">>, <<>>, <<"portal">>,
                                 <<"old", ".m3u8">>>>>>}]]

\* One run of record() up to the URL it captures, for schedule id.  `answer`
\* is what the frontend wrote with update_schedule_stream_url after
\* dvr:resolve_url_now, Absent when it did not answer within the 1.5 s.
ResolveUrl(id, channels, answer) ==
    /\ reply.op = "none"
    /\ answer # Absent => needs_url_resolution(schedules[id], channels)
    /\ schedules' = IF answer = Absent THEN schedules
                    ELSE [schedules EXCEPT ![id].stream_url = answer]
    /\ reply' = [op |-> "record_stream_url", id |-> id, channels |-> channels,
                 schedule |-> schedules[id], answer |-> answer,
                 result |-> record_stream_url(schedules[id], schedules'[id],
                                              channels)]
    /\ UNCHANGED <<now, recordings, active, cancelSent, tasks, child, events,
                   ticks, calls, stopAll, lock, lastQuery, dispatched,
                   termWrites, CleanupVars>>

NextResolve ==
    \E id \in SchedIds,
       other \in {<<"xtream_", "1">>, <<"m3u_", "1">>},
       url7 \in {Absent,
                 <<<<<<"http:">>, <<>>, <<"host">>, <<"live">>, <<"user">>,
                     <<"pass">>, <<"7", ".ts">>>>>>,
                 <<<<<<"http:">>, <<>>, <<"cdn">>, <<"7", ".ts">>>>>>,
                 <<<<<<"stalker_", "7">>>>>>},
       answer \in {Absent,
                   <<<<<<"http:">>, <<>>, <<"portal">>, <<"new", ".m3u8">>>>>>} :
        ResolveUrl(id,
            <<[stream_id |-> <<"9">>, source_id |-> other,
               direct_url |-> <<<<"http:">>, <<>>, <<"host">>, <<"live">>,
                                <<"user">>, <<"pass">>, <<"9", ".ts">>>>]>>
            \o (IF url7 = Absent THEN <<>>
                ELSE <<[stream_id |-> <<"7">>,
                        source_id |-> schedules[id].source_id,
                        direct_url |-> url7[1]]>>),
            answer)

SpecResolve == InitResolve /\ [][NextResolve]_vars

\* ------------------------------------- a run that dispatches several jobs

\* Tables in which the first two schedules are due, their start times
\* ascending with the rowid in one table and descending in the other; the
\* other schedules start later and are not due.
DispatchTables ==
    {[i \in SchedIds |->
         [status |-> "scheduled",
          scheduled_start |-> IF i > 2 THEN 1200 ELSE base + step * i,
          scheduled_end |-> 1300, start_padding_sec |-> 60,
          end_padding_sec |-> 300, started_at |-> NULL,
          channel_name |-> "ch", program_title |-> "news"]] :
       <<base, step>> \in {<<1020, 10>>, <<1060, -10>>}}

InitDispatch ==
    /\ schedules \in DispatchTables
    /\ InitRest
    /\ InitCleanupIdle

\* One run of poll_schedules, its record() tasks and stop_all_recordings.
NextDispatch ==
    \/ Poll(FirstRun)
    \/ \E t \in FirstRun \X SchedIds :
          RecordTask(t, ExitCodes, OneOutput, {TRUE}, {0})
    \/ StopAll

\* poll_schedules awaits nothing but the store, and a tokio task that can run
\* is run: the run of poll_schedules goes on, a record() that left
\* wait_for_recording goes on to its end, and so does the closure that
\* awaited it and the loop of stop_all_recordings.  Nothing makes ffmpeg exit
\* and nothing makes the select! of wait_for_recording return.
SpecDispatch ==
    /\ InitDispatch
    /\ [][NextDispatch]_vars
    /\ WF_vars(Poll(FirstRun))
    /\ WF_vars(StopAllMark)
    /\ \A t \in FirstRun \X SchedIds :
          /\ WF_vars(RecordDeregister(t))
          /\ WF_vars(\E found \in {0} : RecordErrRecording(t, found))
          /\ WF_vars(RecordFailed(t))

\* ------------------------------------ record(): the times of the capture

\* A duration that leaves the paddings out
duration_secs_Unpadded(s) == s.scheduled_end - s.scheduled_start

\* record(), lines 172-173: schedule.actual_end() - schedule.actual_start(),
\* where actual_end() is scheduled_end + end_padding_sec.  It is the value of
\* ffmpeg's -t and the expected_duration of wait_for_recording.
duration_secs(s) ==
    LET actual_end == s.scheduled_end + s.end_padding_sec
    IN  actual_end - actual_start(s)

\* A timeout without the lower bound
timeout_secs_NoFloor(expected_duration) == expected_duration + 300

\* wait_for_recording, line 400: std::cmp::max(expected_duration + 300, 600)
timeout_secs(expected_duration) ==
    IF expected_duration + 300 >= 600 THEN expected_duration + 300 ELSE 600

\* Schedules that start_recording has dispatched at the time `now`, before,
\* at or after their padded start: programmes of one minute, of five minutes
\* and of an hour, and one whose end is before its start (add_schedule does
\* not compare them), with and without paddings.
InitCapture ==
    /\ now \in {900, 940, 1400}
    /\ schedules \in
          [SchedIds ->
              [status : {"recording"}, scheduled_start : {1000},
               scheduled_end : {900, 1060, 1300, 4600},
               start_padding_sec : {0, 60}, end_padding_sec : {0, 300},
               started_at : {now}, channel_name : {"ch"},
               program_title : {"news"}]]
    /\ recordings = <<>>
    /\ InitEngine
    /\ InitCleanupIdle

\* record() up to the spawn, and the timeout that wait_for_recording then
\* computes for the job of schedule id.
CaptureTimes(id) ==
    /\ reply' = [op |-> "record", id |-> id, now |-> now,
                 schedule |-> schedules[id],
                 duration_secs |-> duration_secs(schedules[id]),
                 timeout_secs |-> timeout_secs(duration_secs(schedules[id]))]
    /\ UNCHANGED <<now, schedules, recordings, active, cancelSent, tasks, child,
                   events, ticks, calls, stopAll, lock, lastQuery, dispatched,
                   termWrites, CleanupVars>>

SpecCapture == InitCapture /\ [][\E id \in SchedIds : CaptureTimes(id)]_vars

\* -------------------------------------- record(): the thumbnail task

\* An update_recording_thumbnail that marks the recording completed as well
update_recording_thumbnail_Completes(recs, id, thumbnail_path) ==
    [recs EXCEPT ![id].thumbnail_path = <<thumbnail_path>>,
                 ![id].status = "completed"]

\* DvrDatabase::update_recording_thumbnail:
\* UPDATE dvr_recordings SET thumbnail_path = ?1 WHERE id = ?2
update_recording_thumbnail(recs, id, thumbnail_path) ==
    [recs EXCEPT ![id].thumbnail_path = <<thumbnail_path>>]

\* The task that record() spawns around generate_thumbnail, lines 275-294 and
\* 331-349.  generate_thumbnail returns Ok(Some(path)) when ffmpeg wrote
\* .thumbnails/<recording id>.jpg, which takes a media file that is not
\* empty; Ok(None) when the file is missing or empty or ffmpeg failed; Err
\* after its timeout of 30 s.  Only Ok(Some(path)) is followed by a write.
Thumbnail(t, outcome) ==
    /\ tasks[t].thumb = "requested"
    /\ outcome = "some" => recordings[tasks[t].recording_id].size_bytes > 0
    /\ recordings' =
          IF outcome = "some"
          THEN update_recording_thumbnail(recordings, tasks[t].recording_id,
                   <<".thumbnails", tasks[t].recording_id, ".jpg">>)
          ELSE recordings
    /\ tasks' = [tasks EXCEPT ![t].thumb = outcome]
    /\ UNCHANGED <<schedules, active, cancelSent, child, events, lock,
                   termWrites>>
    /\ UNCHANGED TaskFrame

\* One run of poll_schedules, its record() tasks with every file size, and
\* their thumbnail tasks.
SpecThumbnail ==
    /\ Init
    /\ [][\/ Poll(FirstRun)
          \/ \E t \in FirstRun \X SchedIds :
                \/ RecordTask(t, ExitCodes, OneOutput, {TRUE}, FileSizes)
                \/ \E outcome \in {"some", "none", "err"} : Thumbnail(t, outcome)
          \/ StopAll]_vars

\* ------------------------------------------------ mod.rs: DvrState::stop

\* DvrState::stop, lines 128-144: Scheduler::stop shuts the job scheduler
\* down, then stop_all_recordings.  The one run of poll_schedules has ended
\* when stop_all_recordings begins and no other run follows; the record()
\* tasks it spawned go on.
SpecShutdown ==
    /\ Init
    /\ [][\/ Poll(FirstRun)
          \/ \E t \in FirstRun \X SchedIds :
                RecordTask(t, ExitCodes, OneOutput, {TRUE}, SomeSizes)
          \/ (ticks[1].pc = "done" /\ StopAll)]_vars

\* ------------------------------------------- scheduler.rs: the polling job

\* Scheduler::start, lines 64-87: poll_schedules runs once at start and then
\* every POLL_INTERVAL_SECONDS.  One run, from its read of the clock to the
\* end of its loop, with no other run beside it: every due schedule is marked
\* and its record() task is spawned by start_recording; the next run reads
\* the clock POLL_INTERVAL_SECONDS later.
ClockTick ==
    /\ now < EndOfClock
    /\ LET due == IF count_scheduled(schedules) = 0 THEN <<>>
                  ELSE get_scheduled_recordings(schedules, now,
                           SCHEDULING_WINDOW_SECONDS,
                           MISSED_RECORDING_GRACE_SECONDS)
           started == {due[n] : n \in DOMAIN due}
       IN  /\ schedules' =
                 [s \in SchedIds |->
                     IF s \in started
                     THEN update_schedule_status(schedules, s, "recording", now)[s]
                     ELSE schedules[s]]
           /\ tasks' = [t \in TaskIds |->
                           IF t[1] = 1 /\ t[2] \in started
                           THEN [NoTaskState EXCEPT !.pc = "resolve"]
                           ELSE tasks[t]]
           /\ dispatched' = [s \in SchedIds |->
                                IF s \in started THEN dispatched[s] + 1
                                ELSE dispatched[s]]
           /\ lastQuery' = [now |-> now, window |-> SCHEDULING_WINDOW_SECONDS,
                            grace |-> MISSED_RECORDING_GRACE_SECONDS,
                            result |-> due]
    /\ now' = now + POLL_INTERVAL_SECONDS
    /\ UNCHANGED <<recordings, active, cancelSent, child, events, ticks, calls,
                   stopAll, lock, termWrites, reply, CleanupVars>>

\* The scheduler starts before, between or after the padded and the
\* scheduled start times of the schedules of the table.
InitClock ==
    /\ now \in {700, 710, 1000, 1320}
    /\ schedules \in [SchedIds ->
                         NewScheduleRows({1000, 1100, 1500}, {0, 60, 200},
                                         {"news"})]
    /\ recordings = <<>>
    /\ InitEngine
    /\ InitCleanupIdle

\* The job scheduler fires the polling job as long as it is not shut down.
SpecClock == InitClock /\ [][ClockTick]_vars /\ WF_vars(ClockTick)

\* ===================================================================
\* Claims
\* ===================================================================

\* C1: a schedule's persisted status only ever changes Scheduled->Recording,
\* Scheduled->Canceled or Recording->{Completed, Failed}; once it is Completed,
\* Failed or Canceled it is never written to a different value again.
AllowedTransitions ==
    {<<"scheduled", "recording">>, <<"scheduled", "canceled">>,
     <<"recording", "completed">>, <<"recording", "failed">>}
C1_StatusTransitions ==
    [][\A s \in SchedIds :
          \/ schedules'[s].status = schedules[s].status
          \/ <<schedules[s].status, schedules'[s].status>> \in AllowedTransitions
      ]_vars

\* The record() tasks that reached the select! of wait_for_recording and
\* have returned, their closure in start_recording included
Waited(t) == tasks[t].pc = "done" /\ tasks[t].outcome # "none"

\* C2: a job that reaches the wait loop takes exactly one of exit, cancel and
\* timeout as its outcome (the child is then exited, respectively killed), and
\* its recording row leaves 'recording' for a terminal status by exactly one
\* write: no row is written a terminal status twice, a row is 'recording'
\* exactly while no terminal write happened, and the row is 'completed'
\* exactly when the outcome is a clean exit.
C2_OneOutcomeOneTerminalWrite ==
    /\ \A r \in DOMAIN recordings :
          /\ termWrites[r] <= 1
          /\ recordings[r].status = "recording" <=> termWrites[r] = 0
          /\ recordings[r].status \in RecordingStatus
    /\ \A t \in TaskIds :
          /\ tasks[t].outcome \in {"none", "exit", "cancel", "timeout"}
          /\ tasks[t].outcome = "exit" => child[t] = "exited"
          /\ tasks[t].outcome \in {"cancel", "timeout"} => child[t] = "killed"
          /\ tasks[t].pc \in {"none", "resolve", "spawn", "take", "select"}
                => tasks[t].outcome = "none"
          /\ Waited(t) =>
                LET r == tasks[t].recording_id
                IN  /\ termWrites[r] = 1
                    /\ recordings[r].status \in TerminalRecordingStatus
                    /\ recordings[r].status = "completed"
                          <=> (tasks[t].outcome = "exit" /\ tasks[t].error = NoError)

\* C2 witness: a finished job whose timeout branch was taken while the
\* cancellation was ready as well.
C2_Witness ==
    \E t \in TaskIds :
        /\ Waited(t)
        /\ tasks[t].outcome = "timeout"
        /\ cancelSent[t]
        /\ termWrites[tasks[t].recording_id] = 1

\* C3: every record() invocation sends 'started' and afterwards exactly one of
\* 'completed' and 'failed': the events of an invocation are a prefix of one
\* of these two sequences, and an invocation that sent 'started' and has
\* returned has sent its terminal event.
C3_StartedThenOneTerminal ==
    \A t \in TaskIds :
        /\ events[t] \in {<<>>, <<"started">>, <<"started", "completed">>,
                          <<"started", "failed">>}
        /\ (tasks[t].pc = "done" /\ events[t] # <<>>) => Len(events[t]) = 2

\* C5: when the cancellation wins, the process is killed and the schedule
\* ends Canceled; when the timeout wins, the process is killed and the
\* schedule ends Failed.
C5_CancelEndsCanceled ==
    \A t \in TaskIds :
        Waited(t) =>
            /\ tasks[t].outcome = "cancel" =>
                  /\ child[t] = "killed"
                  /\ schedules[SchedOf(t)].status = "canceled"
            /\ tasks[t].outcome = "timeout" =>
                  /\ child[t] = "killed"
                  /\ schedules[SchedOf(t)].status = "failed"

\* C7: when the spawn of the capture process fails, the schedule is marked
\* Failed and, once record() has returned, no recording row of the schedule
\* is left in the store.
C7_SpawnFailureLeavesNoRow ==
    \A t \in TaskIds :
        (tasks[t].pc = "done" /\ tasks[t].error = ErrorOf("Failed to spawn FFmpeg"))
            => /\ schedules[SchedOf(t)].status = "failed"
               /\ \A r \in DOMAIN recordings :
                     recordings[r].schedule_id # SchedOf(t)

\* C9: once stop_all_recordings has returned and no run of poll_schedules or
\* record() task is under way, every schedule whose handle stop_all_recordings
\* removed has status Canceled.
C9_StopAllEndsCanceled ==
    (/\ stopAll.pc = "done"
     /\ \A t \in TaskIds : tasks[t].pc \in {"none", "done"}
     /\ \A k \in TickIds : ticks[k].pc # "starting")
        => \A s \in stopAll.marked : schedules[s].status = "canceled"

\* C4: for each schedule at most one recording row is in status 'recording',
\* and no schedule is dispatched to record() twice, also when runs of
\* poll_schedules overlap.
C4_DispatchedOnce ==
    \A s \in SchedIds :
        /\ dispatched[s] <= 1
        /\ Cardinality({r \in DOMAIN recordings :
                           /\ recordings[r].schedule_id = s
                           /\ recordings[r].status = "recording"}) <= 1

\* The last non-empty line of what the process wrote to stderr
RECURSIVE LastNonEmpty(_)
LastNonEmpty(lines) ==
    IF lines = <<>> THEN <<>>
    ELSE IF lines[Len(lines)] # <<>> THEN lines[Len(lines)]
         ELSE LastNonEmpty(SubSeq(lines, 1, Len(lines) - 1))

\* C6: when the process exits by itself, a success status makes the
\* recording and the schedule Completed; a non-zero status makes the
\* recording Partial when the stored size is > 0 and Failed otherwise, and
\* the stored error message carries the last non-empty line the process wrote
\* to stderr (or the notice that stderr could not be read in time).
C6_ExitClassification ==
    \A t \in TaskIds :
        LET r == tasks[t].recording_id
        IN  /\ (tasks[t].pc = "done" /\ tasks[t].outcome = "exit"
                   /\ tasks[t].error = NoError)
                  => /\ recordings[r].status = "completed"
                     /\ schedules[SchedOf(t)].status = "completed"
            /\ (tasks[t].pc = "callback" /\ tasks[t].outcome = "exit")
                  => /\ recordings[r].status =
                            (IF recordings[r].size_bytes > 0 THEN "partial"
                             ELSE "failed")
                     /\ LastNonEmpty(tasks[t].stderr) # <<>>
                           => recordings[r].error_message.line \in
                                 {LastNonEmpty(tasks[t].stderr),
                                  <<"(stderr capture timed out or failed)">>}

\* C8: stop_recording is idempotent: a stop_recording that finds no handle
\* for its id (the job finished, was removed or never existed), or that
\* follows a returned stop_recording of the same job, changes neither the
\* active-job table, nor a schedule or recording row, nor kills a process.
C8_StopIdempotent ==
    [][\A c \in CallIds :
          (/\ calls'[c] # calls[c]
           /\ calls'[c].stop
           /\ ~calls'[c].found \/ calls'[c].after)
             => UNCHANGED <<active, schedules, recordings, child>>
      ]_vars

\* C8 witness: a second stop_recording of a job, which found the handle still
\* in the table, has returned.
C8_Witness ==
    \E c \in CallIds :
        /\ calls[c].pc = "done"
        /\ calls[c].after
        /\ calls[c].found

\* What the query is specified to return for the row s
DueAsSpecified(s, t, window, grace) ==
    /\ s.status = "scheduled"
    /\ \/ /\ actual_start(s) >= t - window
          /\ actual_start(s) <= t + window
       \/ /\ s.started_at = NULL
          /\ s.scheduled_start >= t - grace
          /\ s.scheduled_start <= t

\* C10: the query returns, in ascending scheduled_start order, exactly the
\* rows in status Scheduled whose padded start lies in [now - window,
\* now + window], or that never started and whose scheduled_start lies in
\* [now - grace, now].
C10_DueExactly ==
    lastQuery # NoQuery =>
        LET r == lastQuery.result
        IN  /\ {r[i] : i \in DOMAIN r} =
                  {i \in SchedIds : DueAsSpecified(schedules[i], lastQuery.now,
                                        lastQuery.window, lastQuery.grace)}
            /\ \A i, j \in DOMAIN r :
                  i < j => /\ r[i] # r[j]
                           /\ schedules[r[i]].scheduled_start
                                 <= schedules[r[j]].scheduled_start

\* Whether the half-open intervals [s1, e1) and [s2, e2) have a point in common
Intersects(s1, e1, s2, e2) ==
    \E t \in 100..300 : s1 <= t /\ t < e1 /\ s2 <= t /\ t < e2

C12_EndAfterStart ==
    /\ \A i \in DOMAIN schedules :
          schedules[i].scheduled_end > schedules[i].scheduled_start
    /\ (/\ reply.op = "schedule_recording"
        /\ reply.request.scheduled_end <= reply.request.scheduled_start)
          => schedules = reply.before

\* C13: get_schedule of the id that add_schedule returned gives a schedule
\* with status Scheduled, started_at null and every submitted field as in the
\* request; paddings the request omits are stored as 60 and 300.
C13_RoundTrip ==
    reply.op = "schedule_recording" =>
        LET got == get_schedule(schedules, reply.id)
            req == reply.request
        IN  /\ got # Absent
            /\ got[1].status = "scheduled"
            /\ got[1].started_at = NULL
            /\ got[1].source_id = req.source_id
            /\ got[1].channel_id = req.channel_id
            /\ got[1].channel_name = req.channel_name
            /\ got[1].program_title = req.program_title
            /\ got[1].scheduled_start = req.scheduled_start
            /\ got[1].scheduled_end = req.scheduled_end
            /\ got[1].series_match_title = req.series_match_title
            /\ got[1].recurrence = req.recurrence
            /\ got[1].stream_url = req.stream_url
            /\ got[1].start_padding_sec =
                  (IF req.start_padding_sec = Absent THEN 60
                   ELSE req.start_padding_sec[1])
            /\ got[1].end_padding_sec =
                  (IF req.end_padding_sec = Absent THEN 300
                   ELSE req.end_padding_sec[1])

\* C13 witness: a request without paddings and with a stream URL was added as
\* the second schedule.
C13_Witness ==
    /\ reply.op = "schedule_recording"
    /\ reply.id = 2
    /\ reply.request.start_padding_sec = Absent
    /\ reply.request.end_padding_sec = Absent
    /\ reply.request.stream_url # Absent
    /\ get_schedule(schedules, 2) # Absent

\* C14: cancel_schedule(id) sets the status of the schedule to Canceled when
\* that status is Scheduled, and changes nothing else of it; for a schedule in
\* another status or for an unknown id it leaves every schedule row unchanged.
C14_CancelOnlyScheduled ==
    [][\A c \in CallIds :
          (calls[c].pc = "cancel" /\ calls'[c].pc = "done") =>
              LET id == calls[c].id
              IN  IF id \in SchedIds /\ schedules[id].status = "scheduled"
                  THEN schedules' = [schedules EXCEPT ![id].status = "canceled"]
                  ELSE schedules' = schedules
      ]_vars

\* C14 witness: a cancel of a schedule that was still Scheduled has made it
\* Canceled, with no stop_all_recordings around.
C14_Witness ==
    \E c \in CallIds :
        /\ calls[c].pc = "done"
        /\ calls[c].command
        /\ ~calls[c].stop
        /\ calls[c].id \in SchedIds
        /\ schedules[calls[c].id].status = "canceled"
        /\ stopAll.pc = "idle"


\* C15: a tick whose count or fetch of the due schedules fails dispatches
\* nothing and leaves the next tick enabled; inside the loop every step takes
\* exactly the head of the due list, either dispatching it or (when marking it
\* Recording fails) dispatching nothing, and goes on with the rest of the list.
C15_FailedTickGoesOn ==
    /\ [][\A k \in TickIds :
            /\ (ticks[k].pc = "idle" /\ ticks'[k].pc = "failed")
                  => UNCHANGED <<schedules, tasks, dispatched>>
            /\ (ticks[k].pc = "starting" /\ ticks'[k] # ticks[k])
                  => LET s == Head(ticks[k].due)
                         rest == Tail(ticks[k].due)
                     IN  /\ ticks'[k].due = rest
                         /\ ticks'[k].pc =
                                IF rest = <<>> THEN "done" ELSE "starting"
                         /\ \/ /\ dispatched' =
                                     [dispatched EXCEPT ![s] = @ + 1]
                               /\ tasks'[<<k, s>>].pc # "none"
                            \/ UNCHANGED <<schedules, tasks, dispatched>>]_vars
    /\ [](\A k \in TickIds :
             (k > 1 /\ ticks[k].pc = "idle"
                /\ IF k > 1 THEN ticks[k - 1].pc = "failed" ELSE FALSE)
                => ENABLED PollFetch(k))

\* The fetch of the first tick failed; in the second tick marking schedule 1
\* failed and schedule 2 was dispatched all the same.
C15_Witness ==
    /\ ticks[1].pc = "failed"
    /\ ticks[2].pc = "done"
    /\ dispatched[1] = 0 /\ schedules[1].status = "scheduled"
    /\ dispatched[2] = 1 /\ schedules[2].status = "recording"
    /\ tasks[<<2, 2>>].pc # "none"


\* A step of the pass `pass` that deletes a row
PassDeletes(pass) ==
    /\ cleanup.pc = pass
    /\ Len(cleanup'.deleted) > Len(cleanup.deleted)

\* C16: quota eviction deletes a recording only while the usage of the disk
\* is above the target: once the space freed has brought usage to or below
\* max_disk_usage_percent, or when usage was there already, it deletes nothing.
C16_NoOverDelete ==
    [][PassDeletes("quota") =>
          disk.used * 100 >
              get_settings(settings).max_disk_usage_percent * disk.total]_vars

\* C17: a recording deleted by quota eviction is not tagged 'never', and
\* every eligible recording with an earlier effective end time is gone already
\* or is one whose file cannot be removed.
C17_QuotaOldestFirst ==
    [][PassDeletes("quota") =>
          LET r == Head(cleanup.queue)
          IN  /\ r.auto_delete_policy # "never"
              /\ \A j \in DOMAIN recordings :
                    (/\ recordings[j].status \in {"completed", "partial"}
                     /\ recordings[j].auto_delete_policy # "never"
                     /\ effective_end(recordings[j]) < effective_end(r))
                       => (exists(files, j) /\ remove_fails(files, j))]_vars


\* The ids of the rows the pass `pass` has deleted
DeletedBy(pass) ==
    {cleanup.deleted[n].id : n \in {m \in DOMAIN cleanup.deleted :
                                       cleanup.deleted[m].pass = pass}}

\* The end time a row had when the run began
EndBefore(i) == effective_end(cleanup.before.recordings[i])

\* The Completed/Partial rows the emergency pass found: those left at the end
\* of the run and those it deleted.
FoundByEmergency ==
    {i \in DOMAIN recordings \cup DeletedBy("emergency") :
        cleanup.before.recordings[i].status \in {"completed", "partial"}}

\* The k rows of ids with the earliest end times
Oldest(ids, k) ==
    {i \in ids : Cardinality({j \in ids : EndBefore(j) < EndBefore(i)}) < k}

\* C18: a run that finds usage at or above 90%, none of whose earlier passes
\* deleted anything and none of whose files is locked, has deleted by
\* emergency eviction exactly the floor(n/2) rows with the earliest end times
\* among the n Completed/Partial rows, whatever their tags.
C18_EmergencyOldestHalf ==
    (/\ cleanup.pc = "done"
     /\ cleanup.disk_info.used * 100 >=
            (100 - MIN_FREE_SPACE_PERCENT) * cleanup.disk_info.total
     /\ DeletedBy("age") = {} /\ DeletedBy("quota") = {}
     /\ \A i \in DOMAIN files : files[i].media # "locked")
       => DeletedBy("emergency") =
              Oldest(FoundByEmergency, Cardinality(FoundByEmergency) \div 2)

\* The rows age eviction is to delete: Completed/Partial, not tagged 'never',
\* ended before now - retention days; none when dvr_settings holds no
\* retention days.
ExpiredBefore ==
    LET b == cleanup.before.recordings
        days == IF settings.keep_recordings_days = Absent THEN Absent
                ELSE ParseI32(settings.keep_recordings_days[1])
    IN  IF days = Absent THEN {}
        ELSE {i \in DOMAIN b :
                 /\ b[i].status \in {"completed", "partial"}
                 /\ b[i].auto_delete_policy # "never"
                 /\ effective_end(b[i]) < now - days[1] * SecondsPerDay}

\* C19: when the loop of age eviction ends, the rows it deleted are the rows
\* it was to delete (but for those whose file cannot be removed); of each the
\* media file, the thumbnail file and the row are gone; every other row and
\* its files are as the run found them.
C19_AgeEviction ==
    (cleanup.pc = "age" /\ cleanup.queue = <<>>)
       => LET b == cleanup.before
              locked == {i \in DOMAIN b.files : b.files[i].media = "locked"}
          IN  /\ DeletedBy("age") \subseteq ExpiredBefore
              /\ ExpiredBefore \ locked \subseteq DeletedBy("age")
              /\ \A i \in DeletedBy("age") :
                    /\ i \notin DOMAIN recordings
                    /\ files[i].media = "missing"
                    /\ ~files[i].thumb
              /\ \A i \in DOMAIN b.recordings \ DeletedBy("age") :
                    /\ i \in DOMAIN recordings
                    /\ recordings[i] = b.recordings[i]
                    /\ files[i] = b.files[i]

\* C20: an iteration of an eviction pass on a recording whose file cannot be
\* removed keeps the row and the files and leaves the pass where it was, with
\* the rest of its candidates (or, in quota eviction, at its end when enough
\* was freed); and the run ends only after the loop of the last pass ended.
C20_RemoveFailureGoesOn ==
    [][/\ (/\ cleanup.pc \in {"age", "quota", "emergency"}
           /\ cleanup.queue # <<>>
           /\ cleanup' # cleanup
           /\ files[Head(cleanup.queue).id].media = "locked")
          => /\ recordings' = recordings
             /\ files' = files
             /\ cleanup'.deleted = cleanup.deleted
             /\ cleanup'.pc = cleanup.pc
             /\ \/ cleanup'.queue = Tail(cleanup.queue)
                \/ /\ cleanup.pc = "quota"
                   /\ cleanup.bytes_freed >= cleanup.bytes_to_free
                   /\ cleanup'.queue = <<>>
       /\ (cleanup.pc # "done" /\ cleanup'.pc = "done")
             => (cleanup.pc = "emergency" /\ cleanup.queue = <<>>)]_vars

\* The file of recording 2 could not be removed by age eviction, which went
\* on to delete recording 1; quota eviction then deleted a recording, and
\* the run ended with the row of recording 2 in place.
C20_Witness ==
    /\ cleanup.pc = "done"
    /\ files[2].media = "locked"
    /\ 2 \in DOMAIN recordings
    /\ recordings[2].auto_delete_policy # "never"
    /\ settings.keep_recordings_days = <<"2">>
    /\ 1 \in DeletedBy("age")
    /\ DeletedBy("quota") # {}


C22_ProcessTakenOnce ==
    /\ [](\A t \in TaskIds :
             (tasks[t].pc = "select" \/ child[t] = "killed")
                => ~(active[SchedOf(t)].task = t /\ active[SchedOf(t)].process))
    /\ [][\A t \in TaskIds :
             LET held == active[SchedOf(t)].task = t
                            /\ active[SchedOf(t)].process
             IN  /\ (tasks[t].pc = "take" /\ tasks'[t].pc = "select") => held
                 /\ (tasks[t].outcome = "none"
                       /\ tasks'[t].outcome \in {"cancel", "timeout"})
                       => child[t] = "running"
                 /\ (child'[t] = "killed" /\ child[t] # "killed"
                       /\ tasks'[t] = tasks[t])
                       => held /\ child[t] = "running"]_vars

\* Two stop_recording calls signalled the same job and have returned; the
\* wait loop took the cancellation and killed the process.
C22_Witness ==
    \E t \in TaskIds :
        /\ tasks[t].outcome = "cancel"
        /\ child[t] = "killed"
        /\ \A c \in CallIds :
              calls[c].pc = "done" /\ calls[c].found /\ calls[c].id = SchedOf(t)


\* C23: once record() has returned, the table holds no handle for its
\* schedule, whatever stop_recording and stop_all_recordings did meanwhile;
\* and a record() that found its handle removed, its process taken or its
\* cancellation channel closed has returned an error, with its recording row
\* in a terminal status.
C23_DeregisteredAfterReturn ==
    \A t \in TaskIds :
        tasks[t].pc \in {"callback", "done"} =>
            /\ active[SchedOf(t)] = NoHandle
            /\ tasks[t].error.kind \in {"Recording handle not found",
                                        "Recording process already taken",
                                        "Recording cancelled by user"}
                  => recordings[tasks[t].recording_id].status
                        \in TerminalRecordingStatus

\* stop_all_recordings removed the handle before the wait loop looked for it,
\* and record() has returned.
C23_Witness ==
    \E t \in TaskIds :
        /\ tasks[t].pc = "done"
        /\ tasks[t].error = ErrorOf("Recording handle not found")
        /\ stopAll.pc = "done"
        /\ SchedOf(t) \in stopAll.marked


\* C24: when the capture process of a record() is spawned, the recording row
\* of that invocation is in the store with status 'recording'; a handle is in
\* the table only for a process that was spawned; and every process that was
\* spawned has its row.
C24_RowBeforeSpawn ==
    /\ [](\A t \in TaskIds :
             /\ child[t] # "none"
                   => /\ tasks[t].recording_id \in DOMAIN recordings
                      /\ recordings[tasks[t].recording_id].schedule_id
                            = SchedOf(t)
             /\ active[SchedOf(t)].task = t => child[t] # "none")
    /\ [][\A t \in TaskIds :
             (child[t] = "none" /\ child'[t] # "none")
                => /\ tasks[t].recording_id \in DOMAIN recordings
                   /\ recordings[tasks[t].recording_id].status = "recording"
                   /\ active[SchedOf(t)].task # t]_vars

\* A capture process is running, registered in the table, with its row.
C24_Witness ==
    \E t \in TaskIds :
        /\ child[t] = "running"
        /\ active[SchedOf(t)] = NewHandle(t, tasks[t].recording_id)
        /\ recordings[tasks[t].recording_id].status = "recording"


\* C25: a run of poll_schedules starts the due schedules in ascending order
\* of scheduled_start; a record() task exists only for a schedule whose row
\* was written with status 'recording' and started_at in the step that
\* spawned it; and the run ends whether or not a capture it started ever
\* ends.
C25_TickOrderAndNoWait ==
    /\ [][\A s \in SchedIds, j \in SchedIds :
             (dispatched'[s] > dispatched[s] /\ dispatched[j] > 0)
                => schedules[j].scheduled_start <= schedules[s].scheduled_start]_vars
    /\ [][\A t \in TaskIds :
             (tasks[t].pc = "none" /\ tasks'[t].pc # "none")
                => /\ schedules'[SchedOf(t)].status = "recording"
                   /\ schedules'[SchedOf(t)].started_at = now
                   /\ tasks'[t].pc = "resolve"]_vars
    /\ [](\A t \in TaskIds :
             tasks[t].pc # "none" => schedules[SchedOf(t)].started_at # NULL)
    /\ <>(ticks[1].pc = "done")

\* The run has ended after it started two schedules of which the one with the
\* greater rowid starts first, and a capture it started is still running.
C25_Witness ==
    /\ ticks[1].pc = "done"
    /\ dispatched[1] = 1 /\ dispatched[2] = 1
    /\ schedules[2].scheduled_start < schedules[1].scheduled_start
    /\ \E t \in TaskIds : tasks[t].pc = "select" /\ child[t] = "running"

\* C26: once record() of a dispatched job has an error to return, the
\* schedule of the job gets a terminal status and the task ends.
C26_ErrorReachesSchedule ==
    \A t \in FirstRun \X SchedIds :
        (tasks[t].error # NoError)
            ~> /\ tasks[t].pc = "done"
               /\ schedules[SchedOf(t)].status \in {"completed", "failed", "canceled"}

\* A record() that failed to spawn ffmpeg has ended and its schedule is
\* 'failed'
C26_Witness ==
    \E t \in TaskIds :
        /\ tasks[t].pc = "done"
        /\ tasks[t].error = ErrorOf("Failed to spawn FFmpeg")
        /\ schedules[SchedOf(t)].status = "failed"


\* C27: the timeout of wait_for_recording is the greater of the capture
\* duration plus 300 and 600: it is at least 600 and at least 300 more than
\* the capture duration.
C27_TimeoutFloor ==
    reply.op = "record" =>
        LET duration == reply.duration_secs
        IN  /\ reply.timeout_secs \in {duration + 300, 600}
            /\ reply.timeout_secs >= duration + 300
            /\ reply.timeout_secs >= 600

\* A job with a capture duration of 60 seconds has a timeout of 600
C27_Witness ==
    /\ reply.op = "record"
    /\ reply.duration_secs = 60
    /\ reply.timeout_secs = 600

\* C28: the capture duration is (scheduled_end + end_padding_sec) -
\* (scheduled_start - start_padding_sec) whenever the job is dispatched; for
\* a start T, the end T + 60 and the paddings 60 and 300 it is 420.
C28_CaptureDuration ==
    reply.op = "record" =>
        LET s == reply.schedule
        IN  /\ reply.duration_secs =
                  (s.scheduled_end + s.end_padding_sec)
                     - (s.scheduled_start - s.start_padding_sec)
            /\ (/\ s.scheduled_end = s.scheduled_start + 60
                /\ s.start_padding_sec = 60
                /\ s.end_padding_sec = 300) => reply.duration_secs = 420

\* The schedule of the example, dispatched 460 seconds after its padded
\* start, is captured for 420 seconds
C28_Witness ==
    /\ reply.op = "record"
    /\ reply.now = 1400
    /\ reply.schedule.scheduled_start = 1000
    /\ reply.schedule.scheduled_end = 1060
    /\ reply.schedule.start_padding_sec = 60
    /\ reply.schedule.end_padding_sec = 300
    /\ reply.duration_secs = 420


\* C29: started_at of a schedule is set exactly when the schedule has been
\* given the status 'recording'; the step that gives it the status
\* 'recording' sets started_at to the time of the step; and a step that gives
\* it another status changes no other field of the row.
C29_StartedAtIffRecorded ==
    /\ [](\A s \in SchedIds :
             schedules[s].started_at # NULL <=> dispatched[s] > 0)
    /\ [][\A s \in SchedIds :
             /\ dispatched'[s] > dispatched[s]
                   <=> (schedules'[s].status = "recording"
                           /\ schedules[s].status # "recording")
             /\ (schedules'[s].status = "recording"
                    /\ schedules[s].status # "recording")
                   => schedules'[s].started_at = now
             /\ (schedules'[s].status # schedules[s].status
                    /\ schedules'[s].status # "recording")
                   => schedules'[s] =
                         [schedules[s] EXCEPT !.status = schedules'[s].status]]_vars

\* A schedule that was recorded is 'failed' and keeps the started_at of its
\* dispatch; a schedule that was never dispatched has none.
C29_Witness ==
    /\ schedules[1].status = "failed"
    /\ schedules[1].started_at = StartTime
    /\ schedules[2].status = "scheduled"
    /\ schedules[2].started_at = NULL


C31_SizesReconciled ==
    /\ [](cleanup.pc = "done" =>
             \A i \in DOMAIN recordings :
                 recordings[i].status \in {"completed", "partial"} =>
                     IF exists(files, i)
                     THEN recordings[i].size_bytes = <<files[i].size>>
                     ELSE recordings[i].size_bytes
                             = cleanup.before.recordings[i].size_bytes)
    /\ [][(cleanup.pc = "emergency" /\ cleanup'.pc = "done")
             => /\ DOMAIN recordings' = DOMAIN recordings
                /\ files' = files]_vars

\* The run has ended; recording 4, whose row held 0, has the size of its file
C31_Witness ==
    /\ cleanup.pc = "done"
    /\ 4 \in DOMAIN recordings
    /\ cleanup.before.recordings[4].size_bytes = <<0>>
    /\ exists(files, 4)
    /\ recordings[4].size_bytes = <<FileSize>>


\* C39: enforce_quota goes into its loop only when the usage of the disk, as
\* delete_old_recordings left it, is above max_disk_usage_percent; and
\* emergency_cleanup goes into its loop only when the usage, as the two
\* earlier passes left it, is above 100 - MIN_FREE_SPACE_PERCENT.
C39_PassesSeeUsageLeft ==
    [][/\ (cleanup.pc = "age" /\ cleanup'.pc = "quota"
              /\ cleanup'.queue # <<>>)
             => disk.used * 100 >
                   get_settings(settings).max_disk_usage_percent * disk.total
       /\ (cleanup.pc = "quota" /\ cleanup'.pc = "emergency"
              /\ cleanup'.queue # <<>>)
             => disk.used * 100 >
                   (100 - MIN_FREE_SPACE_PERCENT) * disk.total]_vars


\* C32: the lock of active_recordings is held for a look-up, an insert, a
\* take or a remove only: it is free between the steps of every task, and no
\* step kills a process or writes to the store while it holds the lock.
C32_LockOnlyForMapOperations ==
    /\ [](lock = "free")
    /\ [][(schedules' # schedules \/ recordings' # recordings
              \/ child' # child) => lock' = "free"]_vars


\* C33: a schedule that was canceled before any run of poll_schedules
\* started it stays canceled and is never started.
C33_CanceledNeverRecorded ==
    [][\A s \in SchedIds :
          (schedules[s].status = "canceled" /\ dispatched[s] = 0)
             => (schedules'[s].status = "canceled" /\ dispatched'[s] = 0)]_vars


\* C34: once cancel_recording(id) has returned for a schedule it found with
\* the status 'recording', no capture process of that schedule is running
\* unless its kill is on the way (a cancellation was sent to its task).
C34_CancelStopsJob ==
    \A c \in CallIds :
        (calls[c].pc = "done" /\ calls[c].command /\ calls[c].stop) =>
            \A t \in TaskIds :
                (SchedOf(t) = calls[c].id /\ child[t] = "running")
                    => cancelSent[t]


\* C35: when stop_all_recordings of DvrState::stop has returned, no capture
\* process is running.
C35_NothingRunsAfterStop ==
    stopAll.pc = "done" => \A t \in TaskIds : child[t] # "running"


\* C36: a schedule whose id is in active_recordings has the status
\* 'recording'; the step that inserts the handle finds the status
\* 'recording', and a step that writes another status for the schedule finds
\* no handle of it in the table.
C36_ActiveImpliesRecording ==
    /\ [](\A s \in SchedIds :
             active[s] # NoHandle => schedules[s].status = "recording")
    /\ [][\A s \in SchedIds :
             /\ (active[s] = NoHandle /\ active'[s] # NoHandle)
                   => schedules[s].status = "recording"
             /\ (schedules'[s].status # schedules[s].status
                    /\ schedules'[s].status # "recording")
                   => active[s] = NoHandle]_vars


C38_CleanupSparesRecording ==
    [][\A i \in DOMAIN recordings :
          recordings[i].status = "recording" =>
              /\ i \in DOMAIN recordings'
              /\ exists(files, i) => exists(files', i)]_vars

\* A run that deleted rows in its emergency pass has ended, and recording 3,
\* still recording, has its row and its file
C38_Witness ==
    /\ cleanup.pc = "done"
    /\ \E n \in DOMAIN cleanup.deleted : cleanup.deleted[n].pass = "emergency"
    /\ 3 \in DOMAIN recordings
    /\ recordings[3].status = "recording"
    /\ exists(files, 3)


\* C40: a schedule that is still scheduled when the clock is at most 60 s
\* before its padded start is marked 'recording' by a run of the polling job;
\* no run marks a schedule earlier than 60 s before its padded start; and a
\* schedule that is still scheduled at a time later than its scheduled start
\* plus 300 s and later than its padded start plus 60 s stays scheduled.
C40_DispatchWindow ==
    /\ \A s \in SchedIds :
          (schedules[s].status = "scheduled"
              /\ now <= actual_start(schedules[s]) - 60)
             ~> (schedules[s].status = "recording")
    /\ [][\A s \in SchedIds :
             /\ dispatched'[s] > dispatched[s]
                   => now >= actual_start(schedules[s]) - 60
             /\ (/\ schedules[s].status = "scheduled"
                 /\ now > schedules[s].scheduled_start + 300
                 /\ now > actual_start(schedules[s]) + 60)
                   => /\ schedules'[s].status = "scheduled"
                      /\ dispatched'[s] = 0]_vars

\* The clock has stopped; schedule 1 was marked by the run at the time 60 s
\* before its padded start, and schedule 2, whose times had passed when the
\* scheduler started, is still scheduled
C40_Witness ==
    /\ now >= EndOfClock
    /\ schedules[1].status = "recording"
    /\ schedules[1].started_at = actual_start(schedules[1]) - 60
    /\ schedules[2].status = "scheduled"
    /\ dispatched[2] = 0

====
